---- MODULE Spec2Model ----
\* Data Access & Integrity Engine of pmp-backoffice-generator:
\* the mutation and delete request handlers (server.rs) and the relationship
\* integrity engine (relationships.rs) over a relational backend adapter
\* (data_source.rs).
EXTENDS Integers, Sequences, FiniteSets, TLC

\* ------------------------------------------------------------------ bounds

\* Longest cascade plan the walk may build before it is cut off
\* (the walk itself is unbounded on cyclic data).
MaxOps == 6
\* Transient adapter failures that may be injected during one behaviour.
MaxFaults == 1
\* Longest string handed to the Luhn check.
MaxLen == 4
\* Largest page number and page size a client sends, and the most records a
\* paginated query finds.
MaxPage == 4
MaxPageSize == 4
MaxItems == 6

\* ------------------------------------------------------------------ text

\* Strings are sequences of one-character strings.
Q == "\""
BS == "\\"
DigitChars == <<"0", "1", "2", "3", "4", "5", "6", "7", "8", "9">>

RECURSIVE Digits(_)
\* Decimal rendering of a natural number (format!("{}", n)).
Digits(n) ==
    IF n < 10 THEN <<DigitChars[n + 1]>>
    ELSE Digits(n \div 10) \o <<DigitChars[(n % 10) + 1]>>

RECURSIVE Escape(_)
\* JSON string escaping of quotes and backslashes.
Escape(s) ==
    IF s = <<>> THEN <<>>
    ELSE (IF Head(s) \in {Q, BS} THEN <<BS, Head(s)>> ELSE <<Head(s)>>)
         \o Escape(Tail(s))

\* ------------------------------------------------------------------ values

\* serde_json::Value: null, string, number, array.
Null == [t |-> "null", s |-> <<>>, n |-> 0, a |-> <<>>]
Str(s) == [t |-> "str", s |-> s, n |-> 0, a |-> <<>>]
Num(n) == [t |-> "num", s |-> <<>>, n |-> n, a |-> <<>>]
Arr(a) == [t |-> "arr", s |-> <<>>, n |-> 0, a |-> a]

is_null(v) == v.t = "null"

\* Value::as_str().unwrap_or(d): the text of a string value, d for any other.
as_str_or(v, d) == IF v.t = "str" THEN v.s ELSE d

RECURSIVE JoinJson(_)
RECURSIVE to_string(_)
\* Value::to_string(): the compact JSON text of the value, so a string comes
\* back inside double quotes and a number as its digits.
to_string(v) ==
    CASE v.t = "null" -> <<"n", "u", "l", "l">>
      [] v.t = "str" -> <<Q>> \o Escape(v.s) \o <<Q>>
      [] v.t = "num" -> Digits(v.n)
      [] v.t = "arr" -> <<"[">> \o JoinJson(v.a) \o <<"]">>
JoinJson(a) ==
    IF a = <<>> THEN <<>>
    ELSE IF Len(a) = 1 THEN to_string(a[1])
    ELSE to_string(a[1]) \o <<",">> \o JoinJson(Tail(a))

\* ------------------------------------------------------------------ schema

OneToOne == "OneToOne"
OneToMany == "OneToMany"
ManyToOne == "ManyToOne"
ManyToMany == "ManyToMany"

\* A relationship of the backoffice configuration. The junction fields are
\* meaningful for ManyToMany only.
Rel(id, fs, ff, ts, tf, ty, casc) ==
    [id |-> id, from_section |-> fs, from_field |-> ff, to_section |-> ts,
     to_field |-> tf, relationship_type |-> ty, cascade_delete |-> casc,
     junction_table |-> "", from_junction_field |-> ""]

RelM2M(id, fs, ff, ts, tf, casc, jt, fj) ==
    [id |-> id, from_section |-> fs, from_field |-> ff, to_section |-> ts,
     to_field |-> tf, relationship_type |-> ManyToMany, cascade_delete |-> casc,
     junction_table |-> jt, from_junction_field |-> fj]

\* A ValidationCondition; NoCondition stands for `condition: None`.
Condition(field, operator, value) ==
    [field |-> field, operator |-> operator, value |-> value]
NoCondition == Condition("", "None", Null)

\* A ValidationRule: rule_type with its numeric parameter, and the condition.
Rule(kind, value, condition) ==
    [rule_type |-> kind, value |-> value, condition |-> condition]

Field(id, required, validations) ==
    [id |-> id, required |-> required, validations |-> validations]

Action(id, ds, fields) == [id |-> id, data_source |-> ds, fields |-> fields]

Section(id, actions) == [id |-> id, actions |-> actions]

\* The form of the posts section: a required title of at least two characters.
PostFields == <<Field("title", TRUE, <<Rule("MinLength", 2, NoCondition)>>)>>

\* The backoffice configurations explored: the kind and cascade flag of the
\* posts->users relationship vary, and the junction table is or is not
\* declared as a section of its own.
Backoffice(authorType, authorCascade, junctionDeclared) ==
    [data_sources |-> {"main"},
     sections |->
        <<Section("users", <<Action("form", "main", <<>>)>>),
          Section("posts", <<Action("form", "main", PostFields)>>),
          Section("comments", <<Action("form", "main", <<>>)>>),
          Section("tags", <<Action("form", "main", <<>>)>>)>>
        \o (IF junctionDeclared
            THEN <<Section("post_tags", <<Action("form", "main", <<>>)>>)>>
            ELSE <<>>),
     relationships |->
        <<Rel("author", "posts", "author_id", "users", "id", authorType, authorCascade),
          Rel("category", "posts", "category_id", "tags", "id", ManyToOne, FALSE),
          Rel("post", "comments", "post_id", "posts", "id", OneToMany, TRUE),
          Rel("reply", "comments", "parent_id", "comments", "id", OneToMany, TRUE),
          RelM2M("tagging", "posts", "tags", "tags", "id", TRUE,
                 "post_tags", "post_id")>>]

\* The configuration with one more relationship, from posts to a section that
\* is not declared.
WithUndeclaredTarget(bo) ==
    [bo EXCEPT !.relationships =
        Append(@, Rel("archive", "posts", "archived_as", "archive", "id",
                      OneToMany, FALSE))]

\* ------------------------------------------------------------------ backend

Letters == <<"a", "b", "c">>

\* The i-th record id of a backend whose id columns are INTEGER ("num") or
\* TEXT ("str"), as row_to_map hands it over.
Id(kind, i) == IF kind = "num" THEN Num(i) ELSE Str(<<Letters[i]>>)

IdKinds == {"num", "str"}
\* How the stored comments refer to each other through parent_id: a tree, a
\* comment that is its own parent, or two comments that are each other's.
Shapes == {"tree", "self", "pair"}

\* The stored records, table by table, in storage order.
Backend(kind, shape) ==
    [users |-> <<[id |-> Id(kind, 1)], [id |-> Id(kind, 2)]>>,
     posts |-> <<[id |-> Id(kind, 1), author_id |-> Id(kind, 1), category_id |-> Null],
                 [id |-> Id(kind, 2), author_id |-> Id(kind, 1), category_id |-> Id(kind, 1)]>>,
     comments |->
        <<[id |-> Id(kind, 1), post_id |-> Id(kind, 1),
           parent_id |-> CASE shape = "tree" -> Null
                           [] shape = "self" -> Id(kind, 1)
                           [] shape = "pair" -> Id(kind, 2)],
          [id |-> Id(kind, 2), post_id |-> Id(kind, 1), parent_id |-> Id(kind, 1)]>>,
     tags |-> <<[id |-> Id(kind, 1)], [id |-> Id(kind, 2)]>>,
     post_tags |-> <<[post_id |-> Id(kind, 1), tag_id |-> Id(kind, 2)],
                     [post_id |-> Id(kind, 2), tag_id |-> Id(kind, 1)]>>]

Tables == {"users", "posts", "comments", "tags", "post_tags"}

\* The text a stored value is compared as in `WHERE column = 'literal'`.
SqlText(v) == IF v.t = "num" THEN Digits(v.n) ELSE v.s

\* Whether row r satisfies `WHERE field = 'lit'` (NULL equals nothing).
SqlMatch(r, field, lit) ==
    /\ field \in DOMAIN r
    /\ r[field].t \in {"str", "num"}
    /\ SqlText(r[field]) = lit

RECURSIVE SelectRows(_, _, _)
\* The rows of a table that satisfy the WHERE clause, in storage order.
SelectRows(rows, field, lit) ==
    IF rows = <<>> THEN <<>>
    ELSE (IF SqlMatch(Head(rows), field, lit) THEN <<Head(rows)>> ELSE <<>>)
         \o SelectRows(Tail(rows), field, lit)

RECURSIVE RemoveRows(_, _, _)
\* The rows of a table left by `DELETE FROM table WHERE field = 'lit'`.
RemoveRows(rows, field, lit) ==
    IF rows = <<>> THEN <<>>
    ELSE (IF SqlMatch(Head(rows), field, lit) THEN <<>> ELSE <<Head(rows)>>)
         \o RemoveRows(Tail(rows), field, lit)

\* format!("SELECT {} FROM {} WHERE {} = '{}'", ..): the query text, kept as
\* its parts.
SelectQuery(table, field, lit) ==
    [verb |-> "SELECT", table |-> table, field |-> field, lit |-> lit]

\* format!("DELETE FROM {} WHERE {} = '{}'", ..).
DeleteQuery(table, field, lit) ==
    [verb |-> "DELETE", table |-> table, field |-> field, lit |-> lit]

\* The action's configured statement, run for a form submission: the record
\* is stored in the section's table.
InsertQuery(table) ==
    [verb |-> "INSERT", table |-> table, field |-> "", lit |-> <<>>]

\* A backend that refuses a post whose author is not stored.
ApplyMutationKeepsReferences(store, q, data) ==
    IF q.table \notin DOMAIN store THEN store
    ELSE IF q.verb = "DELETE"
    THEN [store EXCEPT ![q.table] = RemoveRows(@, q.field, q.lit)]
    ELSE IF q.verb = "INSERT"
    THEN IF /\ "author_id" \in DOMAIN data
            /\ SelectRows(store["users"], "id", SqlText(data["author_id"])) = <<>>
         THEN store
         ELSE [store EXCEPT ![q.table] = Append(@, data)]
    ELSE store

\* A backend that deletes the posts of a user with the user.
ApplyMutationCascades(store, q, data) ==
    IF q.table \notin DOMAIN store THEN store
    ELSE IF q.verb = "DELETE"
    THEN LET left == [store EXCEPT ![q.table] = RemoveRows(@, q.field, q.lit)]
         IN IF q.table = "users"
            THEN [left EXCEPT !["posts"] = RemoveRows(@, "author_id", q.lit)]
            ELSE left
    ELSE IF q.verb = "INSERT"
    THEN [store EXCEPT ![q.table] = Append(@, data)]
    ELSE store

\* The backend after a mutation that succeeded.
ApplyMutation(store, q, data) ==
    IF q.table \notin DOMAIN store THEN store
    ELSE IF q.verb = "DELETE"
    THEN [store EXCEPT ![q.table] = RemoveRows(@, q.field, q.lit)]
    ELSE IF q.verb = "INSERT"
    THEN [store EXCEPT ![q.table] = Append(@, data)]
    ELSE store

\* ------------------------------------------------------------------ adapter

\* DataSource::execute_query of the database adapter: the statement fails as a
\* whole (the backend is down, the table is unknown, or this call hits a
\* transient fault) or returns the matching rows.
execute_query(store, dn, q, fault) ==
    IF fault \/ q.table \in dn \/ q.table \notin DOMAIN store
    THEN [ok |-> FALSE, rows |-> <<>>]
    ELSE [ok |-> TRUE, rows |-> SelectRows(store[q.table], q.field, q.lit)]

\* DataSource::execute_mutation of the database adapter: the statement fails
\* and changes nothing, or is applied.
execute_mutation(store, dn, q, data, fault) ==
    IF fault \/ q.table \in dn \/ q.table \notin DOMAIN store
    THEN [ok |-> FALSE, store |-> store]
    ELSE [ok |-> TRUE, store |-> ApplyMutation(store, q, data)]

\* ------------------------------------------------------------------ lookups

RECURSIVE KeepFrom(_, _, _)
\* The elements of seq at the indices I, from index i on, in order
\* (iter().filter(..).collect()).
KeepFrom(seq, I, i) ==
    IF i > Len(seq) THEN <<>>
    ELSE (IF i \in I THEN <<seq[i]>> ELSE <<>>) \o KeepFrom(seq, I, i + 1)

\* sections.iter().find(|s| s.id == id): the index of the section, 0 for None.
FindSection(bo, id) ==
    LET I == {i \in 1..Len(bo.sections) : bo.sections[i].id = id}
    IN IF I = {} THEN 0 ELSE CHOOSE i \in I : \A j \in I : i <= j

\* section.actions.iter().find(|a| a.id == id): the index, 0 for None.
FindAction(section, id) ==
    LET I == {i \in 1..Len(section.actions) : section.actions[i].id = id}
    IN IF I = {} THEN 0 ELSE CHOOSE i \in I : \A j \in I : i <= j

\* A lookup that falls back on the first configured data source when the
\* section is not declared or has no action.
SectionSourceOrDefault(bo, sources, section_id) ==
    LET si == FindSection(bo, section_id)
        first == CHOOSE d \in sources : TRUE
    IN IF si = 0 THEN [ok |-> sources # {}, ds |-> first]
       ELSE IF bo.sections[si].actions = <<>> THEN [ok |-> sources # {}, ds |-> first]
       ELSE IF bo.sections[si].actions[1].data_source \notin sources
       THEN [ok |-> FALSE, ds |-> ""]
       ELSE [ok |-> TRUE, ds |-> bo.sections[si].actions[1].data_source]

\* The adapter serving a section: the data source of the section's first
\* action, looked up in the request's data source map. ok is FALSE when the
\* section is not declared, has no action, or names a data source that the
\* map does not hold.
SectionSource(bo, sources, section_id) ==
    LET si == FindSection(bo, section_id)
    IN IF si = 0 THEN [ok |-> FALSE, ds |-> ""]
       ELSE IF bo.sections[si].actions = <<>> THEN [ok |-> FALSE, ds |-> ""]
       ELSE IF bo.sections[si].actions[1].data_source \notin sources
       THEN [ok |-> FALSE, ds |-> ""]
       ELSE [ok |-> TRUE, ds |-> bo.sections[si].actions[1].data_source]

\* The relationships leaving a section, in declaration order.
Outgoing(bo, section_id) ==
    KeepFrom(bo.relationships,
             {i \in 1..Len(bo.relationships) :
                 bo.relationships[i].from_section = section_id}, 1)

\* The many-to-many relationships leaving a section, in declaration order.
OutgoingM2M(bo, section_id) ==
    KeepFrom(bo.relationships,
             {i \in 1..Len(bo.relationships) :
                 /\ bo.relationships[i].from_section = section_id
                 /\ bo.relationships[i].relationship_type = ManyToMany}, 1)

\* The cascade-enabled relationships that target a section, in declaration
\* order.
CascadeRelationships(bo, section_id) ==
    KeepFrom(bo.relationships,
             {i \in 1..Len(bo.relationships) :
                 /\ bo.relationships[i].to_section = section_id
                 /\ bo.relationships[i].cascade_delete}, 1)

\* ------------------------------------------------------------------ validation

\* Whether b occurs in a as a contiguous part (str::contains).
Contains(a, b) ==
    \E i \in 0..(Len(a) - Len(b)) : SubSeq(a, i + 1, i + Len(b)) = b

\* A condition that holds whenever its operands cannot be compared.
MismatchHolds(operator) == TRUE

\* The `else { false }` of the operators that need two numbers, two strings
\* or an array to compare with.
MismatchResult(operator) == FALSE

\* evaluate_condition: the condition against the whole record.
evaluate_condition(data, c) ==
    LET present == c.field \in DOMAIN data
        fv == IF present THEN data[c.field] ELSE Null
        nums == present /\ fv.t = "num" /\ c.value.t = "num"
        strs == present /\ fv.t = "str" /\ c.value.t = "str"
        arr == present /\ c.value.t = "arr"
        op == c.operator
    IN CASE op = "Equals" -> present /\ fv = c.value
         [] op = "NotEquals" -> ~(present /\ fv = c.value)
         [] op = "GreaterThan" ->
                IF nums THEN fv.n > c.value.n ELSE MismatchResult(op)
         [] op = "LessThan" ->
                IF nums THEN fv.n < c.value.n ELSE MismatchResult(op)
         [] op = "GreaterThanOrEqual" ->
                IF nums THEN fv.n >= c.value.n ELSE MismatchResult(op)
         [] op = "LessThanOrEqual" ->
                IF nums THEN fv.n <= c.value.n ELSE MismatchResult(op)
         [] op = "Contains" ->
                IF strs THEN Contains(fv.s, c.value.s) ELSE MismatchResult(op)
         [] op = "NotContains" ->
                IF strs THEN ~Contains(fv.s, c.value.s) ELSE MismatchResult(op)
         [] op = "In" ->
                IF arr THEN \E i \in 1..Len(c.value.a) : c.value.a[i] = fv
                ELSE MismatchResult(op)
         [] op = "NotIn" ->
                IF arr THEN ~\E i \in 1..Len(c.value.a) : c.value.a[i] = fv
                ELSE MismatchResult(op)
         [] OTHER -> TRUE

IsDigit(c) == \E d \in DOMAIN DigitChars : DigitChars[d] = c

\* char::to_digit(10) of a decimal digit.
to_digit(c) == (CHOOSE d \in DOMAIN DigitChars : DigitChars[d] = c) - 1

\* The digits of a string, left to right, every other character dropped.
LuhnDigits(s) ==
    LET kept == SelectSeq(s, IsDigit)
    IN [i \in DOMAIN kept |-> to_digit(kept[i])]

Rev(seq) == [i \in DOMAIN seq |-> seq[Len(seq) + 1 - i]]

\* A checksum that doubles the rightmost digit and every second one after it.
LuhnTermDoublesFirst(idx, digit) ==
    IF idx % 2 = 0
    THEN (IF digit * 2 > 9 THEN digit * 2 - 9 ELSE digit * 2)
    ELSE digit

\* The closure of validate_luhn's map: the share of the digit at place idx,
\* counted from 0.
LuhnTerm(idx, digit) ==
    IF idx % 2 = 1
    THEN (IF digit * 2 > 9 THEN digit * 2 - 9 ELSE digit * 2)
    ELSE digit

RECURSIVE LuhnSum(_, _)
\* .enumerate().map(..).sum() over the digits from place idx on.
LuhnSum(digits, idx) ==
    IF idx >= Len(digits) THEN 0
    ELSE LuhnTerm(idx, digits[idx + 1]) + LuhnSum(digits, idx + 1)

\* validate_luhn.
validate_luhn(s) ==
    LET digits == LuhnDigits(s)
    IN IF Len(digits) < 2 THEN FALSE
       ELSE LuhnSum(Rev(digits), 0) % 10 = 0

\* validate_rule: TRUE when the rule rejects the value.
validate_rule(value, rule) ==
    CASE rule.rule_type = "Required" -> rule.value = 1 /\ is_null(value)
      [] rule.rule_type = "MinLength" -> value.t = "str" /\ Len(value.s) < rule.value
      [] rule.rule_type = "MaxLength" -> value.t = "str" /\ Len(value.s) > rule.value
      [] rule.rule_type = "Min" -> value.t = "num" /\ value.n < rule.value
      [] rule.rule_type = "Max" -> value.t = "num" /\ value.n > rule.value
      [] rule.rule_type = "CreditCard" -> value.t = "str" /\ ~validate_luhn(value.s)
      [] rule.rule_type = "Luhn" -> value.t = "str" /\ ~validate_luhn(value.s)
      [] OTHER -> FALSE

ValidationError(field, rule) == [field |-> field, rule |-> rule]

\* A loop over the rules that evaluates each of them, condition or not.
SkippedNever(data, rule) == FALSE

\* `if let Some(condition) .. if !evaluate_condition(..) { continue }`: the
\* rule is skipped.
Skipped(data, rule) ==
    rule.condition # NoCondition /\ ~evaluate_condition(data, rule.condition)

RECURSIVE RuleErrors(_, _, _)
\* The errors of the rules of one present field, in rule order; a rule whose
\* condition is not met is skipped.
RuleErrors(data, field, rules) ==
    IF rules = <<>> THEN <<>>
    ELSE LET r == Head(rules)
         IN (IF ~Skipped(data, r) /\ validate_rule(data[field.id], r)
             THEN <<ValidationError(field.id, r.rule_type)>> ELSE <<>>)
            \o RuleErrors(data, field, Tail(rules))

\* A loop that goes on to the rules of a required field it found null.
AfterRequiredErrorRunsRules(data, f) ==
    IF f.id \in DOMAIN data THEN RuleErrors(data, f, f.validations) ELSE <<>>

\* The `continue` after the required error: nothing more for this field.
AfterRequiredError(data, f) == <<>>

\* One turn of validate_data's loop over the fields: the errors of a field.
FieldErrors(data, f) ==
    LET missing == f.id \notin DOMAIN data \/ is_null(data[f.id])
    IN IF f.required /\ missing
       THEN <<ValidationError(f.id, "required")>> \o AfterRequiredError(data, f)
       ELSE IF missing THEN <<>>
       ELSE RuleErrors(data, f, f.validations)

\* A loop that keeps the first error only.
PushFirstOnly(errors, new) ==
    IF errors # <<>> THEN errors
    ELSE IF new = <<>> THEN <<>> ELSE <<Head(new)>>

\* errors.push(..): the errors of a field are added to those found so far.
Push(errors, new) == errors \o new

\* The configuration with one more cascading relationship into tags, declared
\* after the many-to-many one: the posts filed under a tag go with the tag.
WithLabelCascade(bo) ==
    [bo EXCEPT !.relationships =
        Append(@, Rel("label", "posts", "category_id", "tags", "id",
                      OneToMany, TRUE))]

\* The configuration whose junction table is a section without any action.
WithActionlessJunction(bo) ==
    [bo EXCEPT !.sections = Append(@, Section("post_tags", <<>>))]

RECURSIVE validate_data(_, _)
\* validate_data: the errors of every field, in field order.
validate_data(data, fields) ==
    IF fields = <<>> THEN <<>>
    ELSE Push(FieldErrors(data, Head(fields)), validate_data(data, Tail(fields)))
\* The configuration with one more action in the users section, on a data
\* source that is not configured.
WithOrphanAction(bo) ==
    [bo EXCEPT !.sections[1].actions = Append(@, Action("orphan", "other", <<>>))]

\* ------------------------------------------------------------------ state

VARIABLES
    backoffice,         \* the BackofficeConfig, read-only after start-up
    db,                 \* the backend: table name -> rows in storage order
    down,               \* tables and data sources that fail every call
    faults,             \* transient adapter failures injected so far
    mreq,               \* mutation request: section_id, action_id, data
    mpc,                \* position of the mutation request
    msources,           \* data_sources_map of the mutation request
    validation_errors,  \* result of validate_data
    rel_i,              \* relationship being checked
    el_j,               \* element of the id array being checked
    rel_errors,         \* RelationshipErrors collected by the running check
    mresp,              \* response of the mutation request
    mlog,               \* what the mutation request has done, in order
    db0,                \* the backend as the behaviour found it
    calls,              \* the statements the backend was sent, in order
    dreq,               \* delete request: section_id, action_id, id, has_id
    dpc,                \* position of the delete request
    dsources,           \* data_sources_map of the delete request
    stack,              \* pending calls of handle_cascade_delete, innermost last
    ops,                \* the cascade operations planned so far
    op_i,               \* cascade operation being executed
    dresp,              \* response of the delete request
    dlog,               \* what the delete request has done, in order
    plan1,              \* result of an earlier handle_cascade_delete call
    runs,               \* handle_cascade_delete calls started
    vfields,            \* validate_data: the field list
    vdata,              \* validate_data: the record
    vi,                 \* validate_data: the field its loop is at
    verrs,              \* validate_data: the errors collected
    vpc,                \* validate_data: position of the call
    lstr,               \* the string handed to the Luhn check
    lres,               \* what validate_luhn and the two rules returned
    rkind,              \* the adapter whose execute_with_retry is running
    rattempt,           \* execute_with_retry: the loop variable `attempt`
    rslept,             \* whether the delay of this turn of the loop is over
    rcalls,             \* the calls of operation() so far: outcome and time
    rdelays,            \* the delays slept so far, in ms
    rclock,             \* ms since execute_with_retry was called
    rlast,              \* execute_with_retry: last_error
    rres,               \* what execute_with_retry returned
    rpc,                \* position of execute_with_retry
    cconfig,            \* create_data_source: the DataSourceConfig variant
    cworld,             \* create_data_source: the state of the backend it names
    cbuild,             \* the optional adapter features compiled in
    cres,               \* what create_data_source returned
    cpc,                \* position of create_data_source
    rop,                \* execute_with_retry: the operation is a query or a mutation
    rapplied,           \* how often the backend has applied the write
    ppage,              \* pagination: the page asked for
    psize,              \* pagination: the page size asked for
    pitems,             \* pagination: the unpaginated result
    pchecks,            \* whether the build checks integer overflow
    pres,               \* what the adapter and the list handler returned
    ppc                 \* position of the pagination calls

mvars == <<mreq, mpc, msources, validation_errors, rel_i, el_j, rel_errors,
           mresp, mlog>>
dvars == <<dreq, dpc, dsources, stack, ops, op_i, dresp, dlog, plan1, runs>>
fvars == <<vfields, vdata, vi, verrs, vpc, lstr, lres>>
rvars == <<rkind, rattempt, rslept, rcalls, rdelays, rclock, rlast, rres, rpc,
           rop, rapplied>>
cvars == <<cconfig, cworld, cbuild, cres, cpc>>
pvars == <<ppage, psize, pitems, pchecks, pres, ppc>>
xvars == <<cvars, pvars>>
ovars == <<fvars, rvars, xvars>>
vars == <<backoffice, db, db0, calls, down, faults, mvars, dvars, ovars>>

NoResponse == [status |-> 0, error |-> ""]
Response(status, error) == [status |-> status, error |-> error]

\* One step of a request: a validation, an adapter construction or an adapter
\* call, with the relationship it serves and how it ended.
Ev(ev, by, rel, q, ok, n) ==
    [ev |-> ev, by |-> by, rel |-> rel, verb |-> q.verb, table |-> q.table,
     field |-> q.field, lit |-> q.lit, ok |-> ok, n |-> n]
NoQuery == [verb |-> "", table |-> "", field |-> "", lit |-> <<>>]

RelationshipError(r, kind) ==
    [relationship_id |-> r.id, field |-> r.from_field, kind |-> kind]

\* The statements sent to the backend once a step of a request has extended
\* the request's log: a query or a mutation is a statement, anything else is
\* not.
Recorded(log, log2, request) ==
    IF log2 # log /\ log2[Len(log2)].ev \in {"execute_query", "execute_mutation"}
    THEN Append(calls, [request |-> request] @@ log2[Len(log2)])
    ELSE calls

\* Whether the next adapter call may hit a transient failure.
FaultChoices == IF faults < MaxFaults THEN {FALSE, TRUE} ELSE {FALSE}

\* ------------------------------------------------------------------ mutation request

\* A handler that goes on to the backend whatever validate_data returned.
ValidationNeverRejects(errs) == FALSE

\* `if !validation_errors.is_empty()`: the handler answers 400 and returns.
ValidationRejects(errs) == errs # <<>>

\* execute_mutation_handler, up to the end of step 1: find the section and
\* the action, validate the submitted data against the action's fields.
MutValidate ==
    /\ mpc = "start"
    /\ LET si == FindSection(backoffice, mreq.section_id)
           ai == IF si = 0 THEN 0
                 ELSE FindAction(backoffice.sections[si], mreq.action_id)
       IN IF si = 0 \/ ai = 0
          THEN /\ mpc' = "done"
               /\ mresp' = Response(404, "not found")
               /\ UNCHANGED <<validation_errors, mlog>>
          ELSE LET errs == validate_data(mreq.data,
                                         backoffice.sections[si].actions[ai].fields)
               IN /\ validation_errors' = errs
                  /\ mlog' = Append(mlog, Ev("validate_data", "handler", "",
                                             NoQuery, errs = <<>>, Len(errs)))
                  /\ IF ValidationRejects(errs)
                     THEN /\ mpc' = "done"
                          /\ mresp' = Response(400, "Validation failed")
                     ELSE /\ mpc' = "create_ds"
                          /\ mresp' = mresp
    /\ UNCHANGED <<ovars, dvars, db0, backoffice, db, down, faults, mreq, msources, rel_i, el_j,
                   rel_errors>>
    /\ calls' = Recorded(mlog, mlog', "mutation")

\* Step 2: one turn of the loop that constructs an adapter per configured
\* data source; a construction failure ends the request.
MutCreateDataSource ==
    /\ mpc = "create_ds"
    /\ \E name \in backoffice.data_sources \ msources, fault \in FaultChoices :
          LET ok == ~fault /\ name \notin down
          IN /\ faults' = IF fault THEN faults + 1 ELSE faults
             /\ mlog' = Append(mlog, Ev("create_data_source", "handler", name,
                                        NoQuery, ok, 0))
             /\ IF ok
                THEN /\ msources' = msources \cup {name}
                     /\ mpc' = IF msources \cup {name} = backoffice.data_sources
                               THEN "fk" ELSE "create_ds"
                     /\ mresp' = mresp
                ELSE /\ msources' = msources
                     /\ mpc' = "done"
                     /\ mresp' = Response(500, "Failed to create data source")
    /\ UNCHANGED <<ovars, dvars, db0, backoffice, db, down, mreq, validation_errors, rel_i, el_j,
                   rel_errors>>
    /\ calls' = Recorded(mlog, mlog', "mutation")

\* A check that only logs the adapter error of the existence query.
FkOutcomeDropsAdapterError(errors, r, res) ==
    IF res.ok /\ res.rows = <<>> THEN Append(errors, RelationshipError(r, "missing"))
    ELSE errors

\* validate_foreign_keys, the match on the existence query's result: an empty
\* result and an adapter error each add one RelationshipError.
FkOutcome(errors, r, res) ==
    IF ~res.ok THEN Append(errors, RelationshipError(r, "failed"))
    ELSE IF res.rows = <<>> THEN Append(errors, RelationshipError(r, "missing"))
    ELSE errors

\* The existence query of validate_foreign_keys for a foreign key value.
FkQuery(r, fk_value) ==
    SelectQuery(r.to_section, r.to_field, as_str_or(fk_value, <<>>))

\* Step 3, validate_foreign_keys: one turn of the loop over the relationships
\* leaving the section.
FkStep ==
    /\ mpc = "fk"
    /\ rel_i <= Len(Outgoing(backoffice, mreq.section_id))
    /\ LET r == Outgoing(backoffice, mreq.section_id)[rel_i]
           src == SectionSource(backoffice, msources, r.to_section)
       IN IF r.from_field \notin DOMAIN mreq.data
          THEN /\ rel_i' = rel_i + 1
               /\ UNCHANGED <<faults, mpc, rel_errors, mresp, mlog>>
          ELSE IF is_null(mreq.data[r.from_field])
          THEN /\ rel_i' = rel_i + 1
               /\ UNCHANGED <<faults, mpc, rel_errors, mresp, mlog>>
          ELSE IF ~src.ok
          THEN /\ mpc' = "done"
               /\ mresp' = Response(500, "Relationship validation error")
               /\ UNCHANGED <<faults, rel_i, rel_errors, mlog>>
          ELSE IF r.relationship_type \in {OneToMany, ManyToMany}
          THEN /\ rel_i' = rel_i + 1
               /\ UNCHANGED <<faults, mpc, rel_errors, mresp, mlog>>
          ELSE \E fault \in FaultChoices :
                  LET q == FkQuery(r, mreq.data[r.from_field])
                      res == execute_query(db, down, q, fault)
                  IN /\ faults' = IF fault THEN faults + 1 ELSE faults
                     /\ mlog' = Append(mlog, Ev("execute_query", "validate_foreign_keys",
                                                r.id, q, res.ok, Len(res.rows)))
                     /\ rel_errors' = FkOutcome(rel_errors, r, res)
                     /\ rel_i' = rel_i + 1
                     /\ UNCHANGED <<mpc, mresp>>
    /\ UNCHANGED <<ovars, dvars, db0, backoffice, db, down, mreq, msources, validation_errors, el_j>>
    /\ calls' = Recorded(mlog, mlog', "mutation")

\* validate_foreign_keys returns its errors; the handler answers 400 when
\* there is one and moves on to the many-to-many check otherwise.
FkReturn ==
    /\ mpc = "fk"
    /\ rel_i > Len(Outgoing(backoffice, mreq.section_id))
    /\ IF rel_errors # <<>>
       THEN /\ mpc' = "done"
            /\ mresp' = Response(400, "Relationship validation failed")
            /\ UNCHANGED <<rel_i, el_j, rel_errors>>
       ELSE /\ mpc' = "m2m"
            /\ rel_i' = 1
            /\ el_j' = 1
            /\ rel_errors' = <<>>
            /\ mresp' = mresp
    /\ UNCHANGED <<ovars, dvars, db0, backoffice, db, down, faults, mreq, msources,
                   validation_errors, mlog>>
    /\ calls' = Recorded(mlog, mlog', "mutation")

\* validate_many_to_many, the match on the existence query's result: an empty
\* result adds a RelationshipError, an adapter error is logged only.
M2MOutcome(errors, r, res) ==
    IF res.ok /\ res.rows = <<>> THEN Append(errors, RelationshipError(r, "missing"))
    ELSE errors

\* Step 4, validate_many_to_many: one turn of the loop over the elements of
\* the id arrays of the many-to-many relationships leaving the section.
M2MStep ==
    /\ mpc = "m2m"
    /\ rel_i <= Len(OutgoingM2M(backoffice, mreq.section_id))
    /\ LET r == OutgoingM2M(backoffice, mreq.section_id)[rel_i]
           isArray == /\ r.from_field \in DOMAIN mreq.data
                      /\ mreq.data[r.from_field].t = "arr"
           ids == IF isArray THEN mreq.data[r.from_field].a ELSE <<>>
           src == SectionSource(backoffice, msources, r.to_section)
           last == el_j >= Len(ids)
       IN IF el_j > Len(ids)
          THEN /\ rel_i' = rel_i + 1
               /\ el_j' = 1
               /\ UNCHANGED <<faults, mpc, rel_errors, mresp, mlog>>
          ELSE IF ids[el_j].t # "str"
          THEN /\ rel_i' = IF last THEN rel_i + 1 ELSE rel_i
               /\ el_j' = IF last THEN 1 ELSE el_j + 1
               /\ UNCHANGED <<faults, mpc, rel_errors, mresp, mlog>>
          ELSE IF ~src.ok
          THEN \* Err(e): the handler logs it and goes on to the mutation
               /\ mpc' = "dispatch"
               /\ rel_errors' = <<>>
               /\ UNCHANGED <<faults, rel_i, el_j, mresp, mlog>>
          ELSE \E fault \in FaultChoices :
                  LET q == SelectQuery(r.to_section, r.to_field, ids[el_j].s)
                      res == execute_query(db, down, q, fault)
                  IN /\ faults' = IF fault THEN faults + 1 ELSE faults
                     /\ mlog' = Append(mlog, Ev("execute_query", "validate_many_to_many",
                                                r.id, q, res.ok, Len(res.rows)))
                     /\ rel_errors' = M2MOutcome(rel_errors, r, res)
                     /\ rel_i' = IF last THEN rel_i + 1 ELSE rel_i
                     /\ el_j' = IF last THEN 1 ELSE el_j + 1
                     /\ UNCHANGED <<mpc, mresp>>
    /\ UNCHANGED <<ovars, dvars, db0, backoffice, db, down, mreq, msources, validation_errors>>
    /\ calls' = Recorded(mlog, mlog', "mutation")

\* validate_many_to_many returns its errors; the handler answers 400 when
\* there is one and moves on to the mutation otherwise.
M2MReturn ==
    /\ mpc = "m2m"
    /\ rel_i > Len(OutgoingM2M(backoffice, mreq.section_id))
    /\ IF rel_errors # <<>>
       THEN /\ mpc' = "done"
            /\ mresp' = Response(400, "Many-to-many relationship validation failed")
       ELSE /\ mpc' = "dispatch"
            /\ mresp' = mresp
    /\ UNCHANGED <<ovars, dvars, db0, backoffice, db, down, faults, mreq, msources,
                   validation_errors, rel_i, el_j, rel_errors, mlog>>
    /\ calls' = Recorded(mlog, mlog', "mutation")

\* Step 5: the adapter of the action runs the mutation.
MutDispatch ==
    /\ mpc = "dispatch"
    /\ LET si == FindSection(backoffice, mreq.section_id)
           action == backoffice.sections[si].actions[
                         FindAction(backoffice.sections[si], mreq.action_id)]
       IN IF action.data_source \notin msources
          THEN /\ mresp' = Response(500, "Data source not found")
               /\ UNCHANGED <<db, faults, mlog>>
          ELSE \E fault \in FaultChoices :
                  LET q == InsertQuery(mreq.section_id)
                      res == execute_mutation(db, down, q, mreq.data, fault)
                  IN /\ faults' = IF fault THEN faults + 1 ELSE faults
                     /\ mlog' = Append(mlog, Ev("execute_mutation", "handler", "",
                                                q, res.ok, 0))
                     /\ db' = res.store
                     /\ mresp' = IF res.ok THEN Response(200, "")
                                 ELSE Response(500, "Mutation execution failed")
    /\ mpc' = "done"
    /\ UNCHANGED <<ovars, dvars, db0, backoffice, down, mreq, msources, validation_errors, rel_i,
                   el_j, rel_errors>>
    /\ calls' = Recorded(mlog, mlog', "mutation")

MutationNext ==
    \/ MutValidate
    \/ MutCreateDataSource
    \/ FkStep
    \/ FkReturn
    \/ M2MStep
    \/ M2MReturn
    \/ MutDispatch

\* ------------------------------------------------------------------ inputs

EmptyRecord == [x \in {} |-> Null]

\* The records with at most the one field `name`, holding one of vals.
FieldChoice(name, vals) == {EmptyRecord} \cup {name :> v : v \in vals}

FkValues ==
    {Null, Num(1), Num(3), Str(<<"a">>), Str(<<"c">>), Str(<<"1">>)}
IdArrays ==
    {Arr(<<>>), Arr(<<Str(<<"a">>)>>), Arr(<<Str(<<"a">>), Str(<<"c">>)>>),
     Arr(<<Str(<<"c">>), Str(<<"a">>)>>), Arr(<<Num(1)>>), Arr(<<Num(3)>>),
     Arr(<<Str(<<"1">>), Str(<<"3">>)>>), Str(<<"a">>)}

\* The submitted records.
MutationData ==
    {t @@ a @@ c @@ g @@ h :
        t \in FieldChoice("title", {Str(<<"x">>), Str(<<"x", "y">>)}),
        a \in FieldChoice("author_id", FkValues),
        c \in FieldChoice("category_id", {Num(1), Str(<<"c">>)}),
        g \in FieldChoice("tags", IdArrays),
        h \in FieldChoice("archived_as", {Str(<<"a">>)})}

MutationRequests ==
    {[section_id |-> "posts", action_id |-> "form", data |-> d] : d \in MutationData}
    \cup {[section_id |-> "ghost", action_id |-> "form", data |-> EmptyRecord],
          [section_id |-> "posts", action_id |-> "nope", data |-> EmptyRecord]}

\* ------------------------------------------------------------------ specifications

\* No call of validate_data or validate_luhn of its own is under way.
NoCalls ==
    /\ vfields = <<>>
    /\ vdata = EmptyRecord
    /\ vi = 1
    /\ verrs = <<>>
    /\ vpc = "idle"
    /\ lstr = <<>>
    /\ lres = EmptyRecord

\* No adapter call with retries is under way.
NoRetry ==
    /\ rkind = ""
    /\ rattempt = 0
    /\ rslept = FALSE
    /\ rcalls = <<>>
    /\ rdelays = <<>>
    /\ rclock = 0
    /\ rlast = ""
    /\ rres = ""
    /\ rpc = "idle"
    /\ rop = ""
    /\ rapplied = 0

\* No adapter construction of its own is under way.
NoFactory ==
    /\ cconfig = ""
    /\ cworld = ""
    /\ cbuild = {}
    /\ cres = [ok |-> FALSE, live |-> FALSE]
    /\ cpc = "idle"

\* No pagination call of its own is under way.
NoPaging ==
    /\ ppage = 0
    /\ psize = 0
    /\ pitems = <<>>
    /\ pchecks = FALSE
    /\ pres = EmptyRecord
    /\ ppc = "idle"

NoHarness == NoFactory /\ NoPaging

OthersIdle == NoCalls /\ NoRetry /\ NoHarness

\* No delete request is under way.
NoDelete ==
    /\ dreq = [section_id |-> "", action_id |-> "", id |-> <<>>, has_id |-> FALSE]
    /\ dpc = "idle"
    /\ dsources = {}
    /\ stack = <<>>
    /\ ops = <<>>
    /\ op_i = 1
    /\ dresp = NoResponse
    /\ dlog = <<>>
    /\ plan1 = [ok |-> FALSE, ops |-> <<>>]
    /\ runs = 0

InitBackend ==
    /\ db \in {Backend(kind, "tree") : kind \in IdKinds}
    /\ db0 = db
    /\ calls = <<>>
    /\ faults = 0

InitMutation ==
    /\ backoffice \in
          {Backoffice(ty, TRUE, TRUE) : ty \in {OneToOne, OneToMany, ManyToOne}}
          \cup {WithUndeclaredTarget(Backoffice(ManyToOne, TRUE, TRUE))}
    /\ InitBackend
    /\ down \in {{}, {"users"}, {"tags"}}
    /\ mreq \in MutationRequests
    /\ mpc = "start"
    /\ msources = {}
    /\ validation_errors = <<>>
    /\ rel_i = 1
    /\ el_j = 1
    /\ rel_errors = <<>>
    /\ mresp = NoResponse
    /\ mlog = <<>>
    /\ NoDelete
    /\ OthersIdle

\* One mutation request against the backend.
SpecMutation == InitMutation /\ [][MutationNext]_vars

\* ------------------------------------------------------------------ mutation request: properties

\* The stage of the mutation request an entry of its log belongs to.
Stage(e) ==
    CASE e.ev = "validate_data" -> 1
      [] e.ev = "create_data_source" -> 2
      [] e.ev = "execute_query" /\ e.by = "validate_foreign_keys" -> 3
      [] e.ev = "execute_query" /\ e.by = "validate_many_to_many" -> 4
      [] e.ev = "execute_mutation" -> 5
      [] OTHER -> 6

BackendEvents == {"create_data_source", "execute_query", "execute_mutation"}

\* C1: in a mutation request validation comes first, the relationship checks
\* second and the adapter's execute_mutation last, and a request whose
\* validation found an error ends with 400 having constructed no adapter and
\* issued no query and no mutation.
C1_ValidationBeforeBackend ==
    /\ \A i, j \in DOMAIN mlog : i < j => Stage(mlog[i]) <= Stage(mlog[j])
    /\ mlog # <<>> => mlog[1].ev = "validate_data"
    /\ \A i \in DOMAIN mlog :
          mlog[i].ev \in {"validate_data", "execute_mutation"} =>
             \A j \in DOMAIN mlog : mlog[j].ev = mlog[i].ev => j = i
    /\ \A i \in DOMAIN mlog : mlog[i].ev = "execute_mutation" => i = Len(mlog)
    /\ validation_errors # <<>> =>
          /\ mpc = "done"
          /\ mresp.status = 400
          /\ msources = {}
          /\ \A i \in DOMAIN mlog : mlog[i].ev \notin BackendEvents

\* A request rejected by validation has ended.
C1_Witness ==
    /\ mpc = "done"
    /\ validation_errors # <<>>
    /\ mresp = Response(400, "Validation failed")
    /\ mreq.data # EmptyRecord

\* C2: a mutation request for which an existence check found nothing, or
\* could not be completed, never reaches execute_mutation, for the
\* foreign-key check and the many-to-many check alike.
C2_FailedCheckBlocksMutation ==
    \A i \in DOMAIN mlog :
       (mlog[i].ev = "execute_query" /\ (~mlog[i].ok \/ mlog[i].n = 0)) =>
          \A j \in DOMAIN mlog : mlog[j].ev # "execute_mutation"

\* The relationship of the configuration with the given id.
RelById(id) ==
    CHOOSE r \in {backoffice.relationships[i] : i \in DOMAIN backoffice.relationships} :
       r.id = id

\* Whether the target section stores a row whose to_field equals the value.
TargetRowExists(r, v) ==
    \E k \in DOMAIN db[r.to_section] :
       LET row == db[r.to_section][k]
       IN /\ r.to_field \in DOMAIN row
          /\ row[r.to_field].t \in {"str", "num"}
          /\ SqlText(row[r.to_field]) = SqlText(v)

\* The errors collected for a relationship.
ErrorsFor(id) == {k \in DOMAIN rel_errors : rel_errors[k].relationship_id = id}

\* C3: for a one-to-one or many-to-one relationship and every non-null value
\* of from_field, string or not, whose existence query was answered,
\* validate_foreign_keys holds exactly one error for the relationship when
\* the target section has no row with that to_field, and none when it has.
C3_OneErrorIffNoTargetRow ==
    \A i \in DOMAIN mlog :
       (mlog[i].by = "validate_foreign_keys" /\ mlog[i].ok) =>
          LET r == RelById(mlog[i].rel)
          IN Cardinality(ErrorsFor(r.id)) =
                IF TargetRowExists(r, mreq.data[r.from_field]) THEN 0 ELSE 1

\* The relationships among the first k leaving the section whose existence
\* query validate_foreign_keys issues.
FkChecked(k) ==
    {i \in 1..k :
        LET r == Outgoing(backoffice, mreq.section_id)[i]
        IN /\ r.from_field \in DOMAIN mreq.data
           /\ ~is_null(mreq.data[r.from_field])
           /\ r.relationship_type \in {OneToOne, ManyToOne}}

FkEvents == {i \in DOMAIN mlog : mlog[i].by = "validate_foreign_keys"}

InForeignKeyCheck ==
    \/ mpc = "fk"
    \/ mpc = "done" /\ mresp.error = "Relationship validation failed"

\* C4: in validate_foreign_keys every existence query that ended in an
\* adapter error has left a RelationshipError for its relationship and field,
\* as an empty result does, and the relationships after it were checked all
\* the same: one query per relationship that needs one.
C4_AdapterErrorIsReported ==
    InForeignKeyCheck =>
       /\ \A i \in FkEvents :
             (~mlog[i].ok \/ mlog[i].n = 0) =>
                \E k \in DOMAIN rel_errors :
                   /\ rel_errors[k].relationship_id = mlog[i].rel
                   /\ rel_errors[k].field = RelById(mlog[i].rel).from_field
                   /\ rel_errors[k].kind = IF mlog[i].ok THEN "missing" ELSE "failed"
       /\ Cardinality(FkEvents) = Cardinality(FkChecked(rel_i - 1))
       /\ mpc = "done" => rel_i = Len(Outgoing(backoffice, mreq.section_id)) + 1

\* The query for the author failed and the category was checked after it.
C4_Witness ==
    /\ mpc = "done"
    /\ mresp.error = "Relationship validation failed"
    /\ \E i, j \in FkEvents :
          /\ i < j
          /\ ~mlog[i].ok
          /\ mlog[i].rel = "author"
          /\ mlog[j].rel = "category"
          /\ mlog[j].ok
    /\ \E k \in DOMAIN rel_errors : rel_errors[k].kind = "failed"

\* ------------------------------------------------------------------ delete request

CascadeOperation(operation_type, section, record_id, relationship_id) ==
    [operation_type |-> operation_type, section |-> section,
     record_id |-> record_id, relationship_id |-> relationship_id]

\* A call of handle_cascade_delete(record_id, section_id, ..): the
\* relationship its loop is at and the dependent records still to handle.
Frame(record_id, section_id) ==
    [record_id |-> record_id, section_id |-> section_id, rel_i |-> 1,
     records |-> <<>>]

\* execute_delete_handler up to the record id: find the section, read the id
\* parameter.
DelStart ==
    /\ dpc = "start"
    /\ IF FindSection(backoffice, dreq.section_id) = 0
       THEN /\ dpc' = "done"
            /\ dresp' = Response(404, "Section not found")
       ELSE IF ~dreq.has_id
       THEN /\ dpc' = "done"
            /\ dresp' = Response(400, "Record ID is required")
       ELSE /\ dpc' = "create_ds"
            /\ dresp' = dresp
    /\ UNCHANGED <<ovars, mvars, backoffice, db, db0, down, faults, dreq, dsources,
                   stack, ops, op_i, dlog, plan1, runs>>
    /\ calls' = Recorded(dlog, dlog', "delete")

\* One turn of the loop that constructs an adapter per configured data
\* source; once all are built handle_cascade_delete is called.
DelCreateDataSource ==
    /\ dpc = "create_ds"
    /\ \E name \in backoffice.data_sources \ dsources, fault \in FaultChoices :
          LET ok == ~fault /\ name \notin down
              all == dsources \cup {name} = backoffice.data_sources
          IN /\ faults' = IF fault THEN faults + 1 ELSE faults
             /\ dlog' = Append(dlog, Ev("create_data_source", "handler", name,
                                        NoQuery, ok, 0))
             /\ IF ok
                THEN /\ dsources' = dsources \cup {name}
                     /\ dpc' = IF all THEN "plan" ELSE "create_ds"
                     /\ stack' = IF all THEN <<Frame(dreq.id, dreq.section_id)>>
                                 ELSE stack
                     /\ runs' = IF all THEN 1 ELSE runs
                     /\ dresp' = dresp
                ELSE /\ dsources' = dsources
                     /\ dpc' = "done"
                     /\ dresp' = Response(500, "Failed to create data source")
                     /\ UNCHANGED <<stack, runs>>
    /\ UNCHANGED <<ovars, mvars, backoffice, db, db0, down, dreq, ops, op_i, plan1>>
    /\ calls' = Recorded(dlog, dlog', "delete")

\* A walk that follows a many-to-one relationship like a one-to-many one.
CascadeBranchFollowsManyToOne(ty) ==
    IF ty \in {OneToMany, OneToOne, ManyToOne} THEN "dependents" ELSE "junction"

\* handle_cascade_delete, the match on the relationship type.
CascadeBranch(ty) ==
    CASE ty \in {OneToMany, OneToOne} -> "dependents"
      [] ty = ManyToOne -> "skip"
      [] ty = ManyToMany -> "junction"

\* The frame on top of the stack replaced by f.
SetTop(st, f) == [st EXCEPT ![Len(st)] = f]

NextRelationship(f) == [f EXCEPT !.rel_i = @ + 1, !.records = <<>>]

\* handle_cascade_delete, one turn of the loop over the cascade-enabled
\* relationships that target the section: query the dependent records, skip,
\* or plan the junction delete.
PlanRelationship ==
    /\ dpc = "plan"
    /\ stack # <<>>
    /\ LET f == stack[Len(stack)]
           rels == CascadeRelationships(backoffice, f.section_id)
       IN /\ f.records = <<>>
          /\ f.rel_i <= Len(rels)
          /\ LET r == rels[f.rel_i]
                 branch == CascadeBranch(r.relationship_type)
                 src == SectionSource(backoffice, dsources, r.from_section)
             IN IF branch = "skip"
                THEN /\ stack' = SetTop(stack, NextRelationship(f))
                     /\ UNCHANGED <<faults, dpc, ops, dlog>>
                ELSE IF branch = "junction"
                THEN /\ ops' = Append(ops, CascadeOperation("DeleteJunction",
                                        r.junction_table, f.record_id, r.id))
                     /\ stack' = SetTop(stack, NextRelationship(f))
                     /\ UNCHANGED <<faults, dpc, dlog>>
                ELSE IF ~src.ok
                THEN \* `?`: every pending call returns the error
                     /\ dpc' = "plan_failed"
                     /\ stack' = <<>>
                     /\ ops' = <<>>
                     /\ UNCHANGED <<faults, dlog>>
                ELSE \E fault \in FaultChoices :
                        LET q == SelectQuery(r.from_section, r.from_field, f.record_id)
                            res == execute_query(db, down, q, fault)
                        IN /\ faults' = IF fault THEN faults + 1 ELSE faults
                           /\ dlog' = Append(dlog, Ev("execute_query",
                                               "handle_cascade_delete", r.id, q,
                                               res.ok, Len(res.rows)))
                           /\ stack' = SetTop(stack,
                                  IF res.ok /\ res.rows # <<>>
                                  THEN [f EXCEPT !.records = res.rows]
                                  ELSE NextRelationship(f))
                           /\ UNCHANGED <<dpc, ops>>
    /\ UNCHANGED <<ovars, mvars, backoffice, db, db0, down, dreq, dsources, op_i,
                   dresp, plan1, runs>>
    /\ calls' = Recorded(dlog, dlog', "delete")

\* A walk that deletes each dependent record as it finds it.
AfterPushDeletes(store, op) ==
    ApplyMutation(store, DeleteQuery(op.section, "id", op.record_id), EmptyRecord)

\* operations.push(..): the operation is recorded in the plan and the backend
\* is left as it is.
AfterPush(store, op) == store

\* handle_cascade_delete, one turn of the loop over the dependent records:
\* plan the record's delete under its id's to_string() and call
\* handle_cascade_delete for it.
PlanDependent ==
    /\ dpc = "plan"
    /\ stack # <<>>
    /\ Len(ops) < MaxOps
    /\ LET f == stack[Len(stack)]
       IN /\ f.records # <<>>
          /\ LET r == CascadeRelationships(backoffice, f.section_id)[f.rel_i]
                 record == Head(f.records)
                 rest == IF Tail(f.records) = <<>> THEN NextRelationship(f)
                         ELSE [f EXCEPT !.records = Tail(f.records)]
             IN IF "id" \in DOMAIN record
                THEN LET op == CascadeOperation("Delete", r.from_section,
                                                to_string(record["id"]), r.id)
                     IN /\ ops' = Append(ops, op)
                        /\ db' = AfterPush(db, op)
                        /\ stack' = Append(SetTop(stack, rest),
                                           Frame(to_string(record["id"]),
                                                 r.from_section))
                ELSE /\ stack' = SetTop(stack, rest)
                     /\ UNCHANGED <<db, ops>>
    /\ UNCHANGED <<ovars, mvars, backoffice, db0, down, faults, dreq, dpc, dsources,
                   op_i, dresp, dlog, plan1, runs>>
    /\ calls' = Recorded(dlog, dlog', "delete")

\* handle_cascade_delete returns Ok(operations): the caller extends its own
\* list with them; the outermost call hands the plan to the handler.
PlanReturn ==
    /\ dpc = "plan"
    /\ stack # <<>>
    /\ LET f == stack[Len(stack)]
       IN /\ f.records = <<>>
          /\ f.rel_i > Len(CascadeRelationships(backoffice, f.section_id))
    /\ stack' = SubSeq(stack, 1, Len(stack) - 1)
    /\ dpc' = IF Len(stack) = 1 THEN "planned" ELSE "plan"
    /\ UNCHANGED <<ovars, mvars, backoffice, db, db0, down, faults, dreq, dsources,
                   ops, op_i, dresp, dlog, plan1, runs>>
    /\ calls' = Recorded(dlog, dlog', "delete")

\* execute_delete_handler, the match on the plan: an error ends the request,
\* an empty plan goes straight to the record, any other plan is executed.
DelPlanned ==
    /\ dpc \in {"planned", "plan_failed"}
    /\ IF dpc = "plan_failed"
       THEN /\ dpc' = "done"
            /\ dresp' = Response(500, "Failed to process cascade delete")
       ELSE /\ dpc' = IF ops = <<>> THEN "delete" ELSE "exec"
            /\ dresp' = dresp
    /\ op_i' = 1
    /\ UNCHANGED <<ovars, mvars, backoffice, db, db0, down, faults, dreq, dsources,
                   stack, ops, dlog, plan1, runs>>
    /\ calls' = Recorded(dlog, dlog', "delete")

\* The mutation of a cascade operation.
OperationQuery(bo, op) ==
    IF op.operation_type = "Delete"
    THEN DeleteQuery(op.section, "id", op.record_id)
    ELSE LET I == {i \in 1..Len(bo.relationships) :
                      bo.relationships[i].id = op.relationship_id}
             r == bo.relationships[CHOOSE i \in I : \A j \in I : i <= j]
         IN DeleteQuery(r.junction_table, r.from_junction_field, op.record_id)

\* An executor that logs a failed operation and goes on with the next.
CascadeFailsNever(res) == FALSE

\* `data_source.execute_mutation(..).await?`: a failed mutation ends
\* execute_cascade_operations with its error.
CascadeFails(res) == ~res.ok

\* execute_cascade_operations, one turn of the loop over the plan.
ExecOp ==
    /\ dpc = "exec"
    /\ op_i <= Len(ops)
    /\ LET op == ops[op_i]
           src == SectionSource(backoffice, dsources, op.section)
       IN IF ~src.ok
          THEN /\ dpc' = "done"
               /\ dresp' = Response(500, "Failed to execute cascade operations")
               /\ UNCHANGED <<db, faults, op_i, dlog>>
          ELSE \E fault \in FaultChoices :
                  LET q == OperationQuery(backoffice, op)
                      res == execute_mutation(db, down, q, EmptyRecord, fault)
                  IN /\ faults' = IF fault THEN faults + 1 ELSE faults
                     /\ dlog' = Append(dlog, Ev("execute_mutation",
                                         "execute_cascade_operations",
                                         op.relationship_id, q, res.ok, 0))
                     /\ db' = res.store
                     /\ IF CascadeFails(res)
                        THEN /\ dpc' = "done"
                             /\ dresp' = Response(500,
                                            "Failed to execute cascade operations")
                             /\ op_i' = op_i
                        ELSE /\ op_i' = op_i + 1
                             /\ UNCHANGED <<dpc, dresp>>
    /\ UNCHANGED <<ovars, mvars, backoffice, db0, down, dreq, dsources, stack, ops,
                   plan1, runs>>
    /\ calls' = Recorded(dlog, dlog', "delete")

\* execute_cascade_operations returns Ok(()).
ExecReturn ==
    /\ dpc = "exec"
    /\ op_i > Len(ops)
    /\ dpc' = "delete"
    /\ UNCHANGED <<ovars, mvars, backoffice, db, db0, down, faults, dreq, dsources,
                   stack, ops, op_i, dresp, dlog, plan1, runs>>
    /\ calls' = Recorded(dlog, dlog', "delete")

\* Step 2 of execute_delete_handler: find the action and its adapter, delete
\* the record itself.
DelRecord ==
    /\ dpc = "delete"
    /\ LET section == backoffice.sections[FindSection(backoffice, dreq.section_id)]
           ai == FindAction(section, dreq.action_id)
       IN IF ai = 0
          THEN /\ dresp' = Response(404, "Action not found")
               /\ UNCHANGED <<db, faults, dlog>>
          ELSE IF section.actions[ai].data_source \notin dsources
          THEN /\ dresp' = Response(500, "Data source not found")
               /\ UNCHANGED <<db, faults, dlog>>
          ELSE \E fault \in FaultChoices :
                  LET q == DeleteQuery(dreq.section_id, "id", dreq.id)
                      res == execute_mutation(db, down, q, EmptyRecord, fault)
                  IN /\ faults' = IF fault THEN faults + 1 ELSE faults
                     /\ dlog' = Append(dlog, Ev("execute_mutation", "handler", "",
                                                q, res.ok, 0))
                     /\ db' = res.store
                     /\ dresp' = IF res.ok THEN Response(200, "")
                                 ELSE Response(500, "Delete execution failed")
    /\ dpc' = "done"
    /\ UNCHANGED <<ovars, mvars, backoffice, db0, down, dreq, dsources, stack, ops,
                   op_i, plan1, runs>>
    /\ calls' = Recorded(dlog, dlog', "delete")

PlanNext ==
    \/ PlanRelationship
    \/ PlanDependent
    \/ PlanReturn

DeleteNext ==
    \/ DelStart
    \/ DelCreateDataSource
    \/ PlanNext
    \/ DelPlanned
    \/ ExecOp
    \/ ExecReturn
    \/ DelRecord

\* A second call of handle_cascade_delete with the inputs of the first, once
\* the first has returned.
Replan ==
    /\ dpc \in {"planned", "plan_failed"}
    /\ runs = 1
    /\ plan1' = [ok |-> dpc = "planned", ops |-> ops]
    /\ runs' = 2
    /\ dpc' = "plan"
    /\ stack' = <<Frame(dreq.id, dreq.section_id)>>
    /\ ops' = <<>>
    /\ UNCHANGED <<ovars, mvars, backoffice, db, db0, down, faults, dreq, dsources,
                   op_i, dresp, dlog>>
    /\ calls' = Recorded(dlog, dlog', "delete")

\* No mutation request is under way.
NoMutation ==
    /\ mreq = [section_id |-> "", action_id |-> "", data |-> EmptyRecord]
    /\ mpc = "idle"
    /\ msources = {}
    /\ validation_errors = <<>>
    /\ rel_i = 1
    /\ el_j = 1
    /\ rel_errors = <<>>
    /\ mresp = NoResponse
    /\ mlog = <<>>

\* The delete requests: a section, an action and the id parameter.
DeleteRequests ==
    {[section_id |-> sec, action_id |-> act, id |-> id, has_id |-> TRUE] :
        sec \in {"users", "posts", "comments", "tags"},
        act \in {"form", "nope", "orphan"},
        id \in {<<"1">>, <<"a">>}}
    \cup {[section_id |-> "ghost", action_id |-> "form", id |-> <<"1">>, has_id |-> TRUE],
          [section_id |-> "users", action_id |-> "form", id |-> <<>>, has_id |-> FALSE]}

Backoffices ==
    {Backoffice(ty, casc, junction) :
        ty \in {OneToOne, OneToMany, ManyToOne}, casc \in BOOLEAN,
        junction \in BOOLEAN}
    \cup {WithOrphanAction(Backoffice(OneToMany, TRUE, TRUE)),
          WithLabelCascade(Backoffice(OneToMany, TRUE, FALSE)),
          WithActionlessJunction(WithLabelCascade(Backoffice(OneToMany, TRUE, FALSE)))}

InitDelete ==
    /\ backoffice \in Backoffices
    /\ db \in {Backend(kind, shape) : kind \in IdKinds, shape \in Shapes}
    /\ db0 = db
    /\ calls = <<>>
    /\ down = {}
    /\ faults = 0
    /\ NoMutation
    /\ dreq \in DeleteRequests
    /\ dpc = "start"
    /\ dsources = {}
    /\ stack = <<>>
    /\ ops = <<>>
    /\ op_i = 1
    /\ dresp = NoResponse
    /\ dlog = <<>>
    /\ plan1 = [ok |-> FALSE, ops |-> <<>>]
    /\ runs = 0
    /\ OthersIdle

\* One delete request against the backend.
SpecDelete == InitDelete /\ [][DeleteNext]_vars

\* handle_cascade_delete called twice with the same inputs, against a backend
\* whose tables are each up or down for good.
InitPlan ==
    /\ backoffice \in Backoffices
    /\ db \in {Backend(kind, shape) : kind \in IdKinds, shape \in Shapes}
    /\ db0 = db
    /\ calls = <<>>
    /\ down \in {{}, {"posts"}, {"comments"}}
    /\ faults = MaxFaults
    /\ NoMutation
    /\ dreq \in {r \in DeleteRequests : r.has_id /\ r.action_id = "form"}
    /\ dpc = "plan"
    /\ dsources = backoffice.data_sources
    /\ stack = <<Frame(dreq.id, dreq.section_id)>>
    /\ ops = <<>>
    /\ op_i = 1
    /\ dresp = NoResponse
    /\ dlog = <<>>
    /\ plan1 = [ok |-> FALSE, ops |-> <<>>]
    /\ runs = 1
    /\ OthersIdle

SpecPlan == InitPlan /\ [][PlanNext \/ Replan]_vars

\* ------------------------------------------------------------------ cascade planning

\* The entries of the delete request's log written by handle_cascade_delete.
PlanEvents == {i \in DOMAIN dlog : dlog[i].by = "handle_cascade_delete"}

PlanningReturned == dpc \in {"planned", "plan_failed"}

\* C5: handle_cascade_delete only plans. Its calls to the adapter are
\* execute_query calls, the backend is the one it started from at every point
\* of the walk, and a second call with the same record, section, configuration
\* and adapters returns what the first returned: the same operations in the
\* same order.
C5_PlanningIsPure ==
    /\ \A i \in DOMAIN dlog :
          dlog[i].by = "handle_cascade_delete" /\ dlog[i].ev = "execute_query"
    /\ db = db0
    /\ (runs = 2 /\ PlanningReturned) =>
          /\ plan1.ok = (dpc = "planned")
          /\ plan1.ops = ops

\* Both calls have returned a plan of a nested walk: operations of two
\* sections, found by queries.
C5_Witness ==
    /\ runs = 2
    /\ dpc = "planned"
    /\ Len(ops) >= 3
    /\ \E i, j \in DOMAIN ops : ops[i].section # ops[j].section
    /\ PlanEvents # {}

\* ------------------------------------------------------------------ cascade execution

\* The mutations execute_cascade_operations has issued, oldest first.
ExecEvents ==
    SelectSeq(dlog, LAMBDA e : e.by = "execute_cascade_operations")

RECURSIVE AfterOperations(_, _, _)
\* The backend after the first n operations of a plan were applied in order.
AfterOperations(store, plan, n) ==
    IF n = 0 THEN store
    ELSE ApplyMutation(AfterOperations(store, plan, n - 1),
                       OperationQuery(backoffice, plan[n]), EmptyRecord)

\* The statement an entry of the log carries.
QueryOf(e) == [verb |-> e.verb, table |-> e.table, field |-> e.field, lit |-> e.lit]

CascadeError == Response(500, "Failed to execute cascade operations")

\* The number of operations whose mutation succeeded.
Succeeded ==
    IF ExecEvents # <<>> /\ ~ExecEvents[Len(ExecEvents)].ok
    THEN Len(ExecEvents) - 1 ELSE Len(ExecEvents)

\* C6: execute_cascade_operations issues the mutations of the plan in list
\* order and stops at the first failure. The mutations issued are those of a
\* prefix of the plan, one per operation; only the last one issued can have
\* failed, and then the request ends with the cascade error and nothing more
\* is attempted; the effects of the operations before it stay; when the
\* executor returns Ok the whole plan was executed.
C6_PrefixInOrderStopAtFailure ==
    LET n == Len(ExecEvents)
    IN /\ n <= Len(ops)
       /\ \A k \in 1..n :
             /\ ExecEvents[k].ev = "execute_mutation"
             /\ QueryOf(ExecEvents[k]) = OperationQuery(backoffice, ops[k])
             /\ k < n => ExecEvents[k].ok
       /\ Succeeded < n =>
             /\ dpc = "done"
             /\ dresp = CascadeError
             /\ dlog[Len(dlog)] = ExecEvents[n]
       /\ dpc = "exec" => n = op_i - 1 /\ Succeeded = n
       /\ (dpc = "exec" \/ dresp = CascadeError) =>
             db = AfterOperations(db0, ops, Succeeded)
       /\ (ops # <<>> /\ (dpc = "delete" \/ (dpc = "done" /\ dresp # CascadeError
                                             /\ dresp.status \in {200, 404}))) =>
             n = Len(ops) /\ Succeeded = n

\* An operation in the middle of the plan failed after an earlier one had
\* changed the backend: the change stays, the rest of the plan is not run.
C6_Witness ==
    /\ dresp = CascadeError
    /\ Succeeded >= 1
    /\ Succeeded < Len(ExecEvents)
    /\ Len(ExecEvents) < Len(ops)
    /\ db # db0

\* ------------------------------------------------------------------ dependents

\* The stored records of the sections as they were before the request, each
\* named by its table and its place in it.
Records == UNION {{<<t, k>> : k \in DOMAIN db0[t]} : t \in DOMAIN db0}

RowOf(rec) == db0[rec[1]][rec[2]]

\* The cascade-enabled one-to-one and one-to-many relationships.
DependencyRelationships ==
    {r \in {backoffice.relationships[i] : i \in DOMAIN backoffice.relationships} :
        r.cascade_delete /\ r.relationship_type \in {OneToOne, OneToMany}}

\* Row f of r.from_section refers to row t of r.to_section.
RefersTo(r, f, t) ==
    /\ r.from_field \in DOMAIN f
    /\ r.to_field \in DOMAIN t
    /\ ~is_null(f[r.from_field])
    /\ f[r.from_field] = t[r.to_field]

\* The records that depend directly on one of S.
DirectDependents(S) ==
    {f \in Records : \E t \in S, r \in DependencyRelationships :
        /\ f[1] = r.from_section
        /\ t[1] = r.to_section
        /\ RefersTo(r, RowOf(f), RowOf(t))}

RECURSIVE Closure(_)
\* S with everything that depends on it, directly or transitively.
Closure(S) ==
    LET T == S \cup DirectDependents(S)
    IN IF T = S THEN S ELSE Closure(T)

OnCycle(rec) == rec \in Closure(DirectDependents({rec}))

\* The stored records the delete request names.
Requested ==
    {rec \in Records :
        /\ rec[1] = dreq.section_id
        /\ dreq.has_id
        /\ SqlMatch(RowOf(rec), "id", dreq.id)}

Survives(rec) == \E k \in DOMAIN db[rec[1]] : db[rec[1]][k] = RowOf(rec)

\* C7: when the walk from the requested record reaches a record that
\* depends on itself through cascade-enabled one-to-one/one-to-many
\* relationships, and the adapter answers every query, handle_cascade_delete
\* does not return: it is still planning.
C7_CyclicWalkNeverReturns ==
    (/\ \E rec \in Closure(Requested) : OnCycle(rec)
     /\ down = {}) => dpc = "plan"

\* C8: after a delete request that ended with 200, with acyclic references
\* and no adapter failure, the requested record and every record depending on
\* it through cascade-enabled one-to-one/one-to-many relationships are gone,
\* and no record that is left refers to a deleted one along such a
\* relationship.
C8_DependentsDeleted ==
    (/\ dpc = "done"
     /\ dresp.status = 200
     /\ faults = 0
     /\ \A rec \in Records : ~OnCycle(rec)) =>
        /\ \A rec \in Closure(Requested) : ~Survives(rec)
        /\ \A f, t \in Records, r \in DependencyRelationships :
              (/\ f[1] = r.from_section
               /\ t[1] = r.to_section
               /\ RefersTo(r, RowOf(f), RowOf(t))
               /\ Survives(f)) => Survives(t)

\* ------------------------------------------------------------------ relationship kinds in the walk

\* C9: a many-to-one relationship never cascades. handle_cascade_delete
\* issues no query for such a relationship and plans no operation through it,
\* cascade_delete set or not, so a delete whose section is targeted by
\* many-to-one relationships only runs with an empty plan.
C9_ManyToOneNeverCascades ==
    /\ \A i \in PlanEvents : RelById(dlog[i].rel).relationship_type # ManyToOne
    /\ \A k \in DOMAIN ops :
          RelById(ops[k].relationship_id).relationship_type # ManyToOne
    /\ (/\ dpc \in {"planned", "exec", "delete"}
        /\ \A k \in DOMAIN CascadeRelationships(backoffice, dreq.section_id) :
              CascadeRelationships(backoffice, dreq.section_id)[k].relationship_type
                 = ManyToOne) => ops = <<>>

\* A user that posts refer to through a cascade-enabled many-to-one
\* relationship was deleted and the posts were left alone.
C9_Witness ==
    /\ dreq.section_id = "users"
    /\ CascadeRelationships(backoffice, "users") # <<>>
    /\ CascadeRelationships(backoffice, "users")[1].relationship_type = ManyToOne
    /\ Requested # {}
    /\ \E f \in Records : f[1] = "posts" /\ \E t \in Requested :
          RefersTo(CascadeRelationships(backoffice, "users")[1], RowOf(f), RowOf(t))
    /\ dpc = "done"
    /\ dresp.status = 200
    /\ ops = <<>>
    /\ PlanEvents = {}
    /\ db.posts = db0.posts

\* The cascade-enabled many-to-many relationships that target the section of
\* the delete request.
JunctionRelationships ==
    {r \in {backoffice.relationships[i] : i \in DOMAIN backoffice.relationships} :
        /\ r.cascade_delete
        /\ r.relationship_type = ManyToMany
        /\ r.to_section = dreq.section_id}

\* The junction column that holds the ids of the relationship's target
\* section: the one that is not from_junction_field.
TargetJunctionField(r, row) == CHOOSE c \in DOMAIN row : c # r.from_junction_field

\* The junction rows left in the backend that belong to the requested record.
JunctionRowsLeft(r) ==
    {k \in DOMAIN db[r.junction_table] :
        LET row == db[r.junction_table][k]
        IN SqlMatch(row, TargetJunctionField(r, row), dreq.id)}

\* C10: for each cascade-enabled many-to-many relationship that targets the
\* section, the plan holds exactly one DeleteJunction operation, addressed to
\* the junction table and carrying the id of the record being deleted, and
\* handle_cascade_delete has issued no query for the relationship; once the
\* operation was executed no junction row of the deleted record is left.
C10_JunctionDelete ==
    \A r \in JunctionRelationships :
       LET K == {k \in DOMAIN ops : ops[k].relationship_id = r.id}
       IN /\ \A i \in PlanEvents : dlog[i].rel # r.id
          /\ dpc \in {"planned", "exec", "delete"} =>
                /\ Cardinality(K) = 1
                /\ \A k \in K :
                      ops[k] = CascadeOperation("DeleteJunction", r.junction_table,
                                                dreq.id, r.id)
          /\ \A k \in K : k <= Succeeded => JunctionRowsLeft(r) = {}

\* ------------------------------------------------------------------ validate_data on its own

\* One turn of validate_data's loop over the fields.
ValidateField ==
    /\ vpc = "loop"
    /\ vi <= Len(vfields)
    /\ verrs' = Push(verrs, FieldErrors(vdata, vfields[vi]))
    /\ vi' = vi + 1
    /\ UNCHANGED <<rvars, xvars, backoffice, db, db0, calls, down, faults, mvars, dvars, vfields, vdata,
                   vpc, lstr, lres>>

\* validate_data returns Ok(errors).
ValidateReturn ==
    /\ vpc = "loop"
    /\ vi > Len(vfields)
    /\ vpc' = "done"
    /\ UNCHANGED <<rvars, xvars, backoffice, db, db0, calls, down, faults, mvars, dvars, vfields, vdata,
                   vi, verrs, lstr, lres>>

ValidateNext ==
    \/ ValidateField
    \/ ValidateReturn

ConditionOperators ==
    {"Equals", "NotEquals", "GreaterThan", "LessThan", "GreaterThanOrEqual",
     "LessThanOrEqual", "Contains", "NotContains", "In", "NotIn"}

\* The expected values of the conditions: a number, a string, an array.
ExpectedValues == {Num(1), Str(<<"x">>), Arr(<<Num(1), Str(<<"x">>)>>)}

\* The conditions on field k, and no condition.
Conditions ==
    {NoCondition} \cup
    {Condition("k", op, v) : op \in ConditionOperators, v \in ExpectedValues}

\* Field a: required or not, without rules or with a gated Required rule, a
\* gated MinLength rule and a MaxLength rule.
FieldsA ==
    {Field("a", req, rules) :
        req \in BOOLEAN,
        rules \in {<<>>} \cup
                  {<<Rule("Required", 1, NoCondition), Rule("MinLength", 2, c),
                     Rule("MaxLength", 0, NoCondition)>> : c \in Conditions}}

\* Field b: required or not, with a Max rule under one of three conditions.
FieldsB ==
    {Field("b", req, <<Rule("Max", 5, c)>>) :
        req \in BOOLEAN,
        c \in {NoCondition, Condition("a", "Contains", Str(<<"y">>)),
               Condition("k", "NotEquals", Num(1))}}

FieldLists ==
    {<<fa>> : fa \in FieldsA}
    \cup {<<fa, fb>> : fa \in FieldsA, fb \in FieldsB}
    \cup {<<fb, fa>> : fa \in FieldsA, fb \in FieldsB}

\* The records validated: each of a, b and k absent or holding a value.
ValidatedRecords ==
    {a @@ b @@ k :
        a \in FieldChoice("a", {Null, Str(<<"x">>), Str(<<"x", "y", "z">>), Num(5)}),
        b \in FieldChoice("b", {Null, Num(0), Num(9)}),
        k \in FieldChoice("k", {Num(1), Num(2), Str(<<"x">>), Str(<<"x", "y">>)})}

\* Nothing but the call under study is going on.
QuietBackend ==
    /\ backoffice = Backoffice(OneToMany, TRUE, TRUE)
    /\ db = Backend("num", "tree")
    /\ db0 = db
    /\ calls = <<>>
    /\ down = {}
    /\ faults = 0

InitValidate ==
    /\ QuietBackend
    /\ NoMutation
    /\ NoDelete
    /\ NoRetry
    /\ NoHarness
    /\ vfields \in FieldLists
    /\ vdata \in ValidatedRecords
    /\ vi = 1
    /\ verrs = <<>>
    /\ vpc = "loop"
    /\ lstr = <<>>
    /\ lres = EmptyRecord

\* One call of validate_data.
SpecValidate == InitValidate /\ [][ValidateNext]_vars

\* ------------------------------------------------------------------ validate_data: properties

\* The field's value is absent from the record or null.
Missing(data, f) == f.id \notin DOMAIN data \/ is_null(data[f.id])

\* The independent violations of a record against a field list: <<i, 0>> for
\* a required field i that is missing or null, <<i, j>> for rule j of a field
\* i that holds a value, when the rule has no condition or its condition
\* holds, and the value fails it.
Violations(data, fields) ==
    {<<i, 0>> : i \in {i \in DOMAIN fields :
                         fields[i].required /\ Missing(data, fields[i])}}
    \cup
    UNION {{<<i, j>> : j \in {j \in DOMAIN fields[i].validations :
                LET r == fields[i].validations[j]
                IN /\ ~Missing(data, fields[i])
                   /\ r.condition = NoCondition \/ evaluate_condition(data, r.condition)
                   /\ validate_rule(data[fields[i].id], r)}} : i \in DOMAIN fields}

\* The errors validate_data has collected for a field id.
ErrorsOf(id) == SelectSeq(verrs, LAMBDA e : e.field = id)

\* C11: validate_data does not stop at the first problem. The errors it
\* returns number the independent violations of the record: one per required
\* field that is missing or null, one per failing rule, with no condition or a
\* condition that holds, of a field that holds a value; the number is the same
\* for the field list in the opposite order.
C11_OneErrorPerViolation ==
    vpc = "done" =>
        /\ Len(verrs) = Cardinality(Violations(vdata, vfields))
        /\ Len(validate_data(vdata, Rev(vfields))) = Len(verrs)

\* A record with three violations in two fields got three errors.
C11_Witness ==
    /\ vpc = "done"
    /\ Len(verrs) = 3
    /\ Len(ErrorsOf("a")) = 2
    /\ Len(ErrorsOf("b")) = 1

\* C12: a required field that is absent or null gets exactly one error, the
\* required error, and no error of any of its rules, however many it carries;
\* every other field of the list gets the errors it gets when validated alone.
C12_RequiredShortCircuitsOwnField ==
    vpc = "done" =>
        \A i \in DOMAIN vfields :
            (vfields[i].required /\ Missing(vdata, vfields[i])) =>
                /\ ErrorsOf(vfields[i].id) =
                      <<ValidationError(vfields[i].id, "required")>>
                /\ \A g \in DOMAIN vfields :
                      g # i => ErrorsOf(vfields[g].id) =
                                  validate_data(vdata, <<vfields[g]>>)

\* A required field with three rules was null, one of its rules would have
\* rejected null, and the other field of the list was still found in error.
C12_Witness ==
    /\ vpc = "done"
    /\ \E i \in DOMAIN vfields :
          /\ vfields[i].id = "a"
          /\ vfields[i].required
          /\ "a" \in DOMAIN vdata
          /\ is_null(vdata["a"])
          /\ Len(vfields[i].validations) = 3
          /\ validate_rule(vdata["a"], vfields[i].validations[1])
    /\ Len(ErrorsOf("a")) = 1
    /\ Len(ErrorsOf("b")) = 1

\* C13: a rule whose condition evaluates to false against the record never
\* contributes an error, whatever its kind and whatever the field holds.
C13_FalseConditionNoError ==
    \A i \in DOMAIN vfields : \A j \in DOMAIN vfields[i].validations :
        LET r == vfields[i].validations[j]
        IN (r.condition # NoCondition /\ ~evaluate_condition(vdata, r.condition)) =>
              \A k \in DOMAIN verrs :
                 ~(verrs[k].field = vfields[i].id /\ verrs[k].rule = r.rule_type)

\* A value that fails a rule went through because the rule's condition was
\* false.
C13_Witness ==
    /\ vpc = "done"
    /\ \E i \in DOMAIN vfields : \E j \in DOMAIN vfields[i].validations :
          LET r == vfields[i].validations[j]
          IN /\ r.condition # NoCondition
             /\ ~evaluate_condition(vdata, r.condition)
             /\ ~Missing(vdata, vfields[i])
             /\ validate_rule(vdata[vfields[i].id], r)
             /\ \A k \in DOMAIN verrs : verrs[k].rule # r.rule_type

\* The rules of the field list that carry a condition, as <<field, rule>>.
GatedRules ==
    UNION {{<<i, j>> : j \in {j \in DOMAIN vfields[i].validations :
                vfields[i].validations[j].condition # NoCondition}} :
           i \in DOMAIN vfields}

ConditionOf(g) == vfields[g[1]].validations[g[2]].condition

\* The record holds a value for the condition's field and its type is not
\* the type of the expected value.
TypesDiffer(c) == c.field \in DOMAIN vdata /\ vdata[c.field].t # c.value.t

\* The record holds a value for the condition's field and the operator cannot
\* compare it with the expected value: an ordering without two numbers, a
\* containment without two strings, a membership without an array.
CannotCompare(c) ==
    /\ c.field \in DOMAIN vdata
    /\ CASE c.operator \in {"GreaterThan", "LessThan", "GreaterThanOrEqual",
                            "LessThanOrEqual"} ->
                ~(vdata[c.field].t = "num" /\ c.value.t = "num")
         [] c.operator \in {"Contains", "NotContains"} ->
                ~(vdata[c.field].t = "str" /\ c.value.t = "str")
         [] c.operator \in {"In", "NotIn"} -> c.value.t # "arr"
         [] OTHER -> FALSE

\* The operands of the condition are of mismatched types: the operator cannot
\* compare them, or it is an equality between values of different types.
Mismatched(c) ==
    \/ CannotCompare(c)
    \/ c.operator \in {"Equals", "NotEquals"} /\ TypesDiffer(c)

\* The error of a gated rule, if validate_data reported one.
ReportedFor(g) ==
    \E k \in DOMAIN verrs :
       /\ verrs[k].field = vfields[g[1]].id
       /\ verrs[k].rule = vfields[g[1]].validations[g[2]].rule_type

\* C14 as stated: for each of the ten operators, a condition whose record
\* value and expected value are of mismatched types evaluates to false, and
\* the rule it gates produces no error.
C14_MismatchIsFalse ==
    \A g \in GatedRules :
       Mismatched(ConditionOf(g)) =>
          /\ ~evaluate_condition(vdata, ConditionOf(g))
          /\ ~ReportedFor(g)

\* C14, amended: for the four ordering operators, the two containment
\* operators and the two membership operators, a condition whose operands the
\* operator cannot compare evaluates to false and the rule it gates produces
\* no error; Equals between values of different types is false; NotEquals
\* between values of different types is true, and the rule is evaluated.
C14_UncomparableIsFalse ==
    \A g \in GatedRules :
       LET c == ConditionOf(g)
       IN /\ CannotCompare(c) =>
                ~evaluate_condition(vdata, c) /\ ~ReportedFor(g)
          /\ (TypesDiffer(c) /\ c.operator = "Equals") =>
                ~evaluate_condition(vdata, c) /\ ~ReportedFor(g)
          /\ (TypesDiffer(c) /\ c.operator = "NotEquals") =>
                evaluate_condition(vdata, c)

\* A value that fails a rule went through because the rule's condition
\* compares a string with a number by order.
C14_Witness ==
    /\ vpc = "done"
    /\ \E g \in GatedRules :
          /\ ConditionOf(g).operator = "GreaterThan"
          /\ CannotCompare(ConditionOf(g))
          /\ ~Missing(vdata, vfields[g[1]])
          /\ validate_rule(vdata[vfields[g[1]].id], vfields[g[1]].validations[g[2]])
          /\ ~ReportedFor(g)

\* ------------------------------------------------------------------ the Luhn check on its own

LuhnRule == Rule("Luhn", 0, NoCondition)
CreditCardRule == Rule("CreditCard", 0, NoCondition)

\* validate_luhn(s) is called.
CallValidateLuhn ==
    /\ vpc = "luhn"
    /\ "fn" \notin DOMAIN lres
    /\ lres' = lres @@ ("fn" :> validate_luhn(lstr))
    /\ UNCHANGED <<rvars, xvars, backoffice, db, db0, calls, down, faults, mvars, dvars, vfields, vdata,
                   vi, verrs, vpc, lstr>>

\* validate_rule is called for the string with ValidationType::Luhn; the
\* string is accepted when the rule returns Ok.
CallLuhnRule ==
    /\ vpc = "luhn"
    /\ "Luhn" \notin DOMAIN lres
    /\ lres' = lres @@ ("Luhn" :> ~validate_rule(Str(lstr), LuhnRule))
    /\ UNCHANGED <<rvars, xvars, backoffice, db, db0, calls, down, faults, mvars, dvars, vfields, vdata,
                   vi, verrs, vpc, lstr>>

\* validate_rule is called for the string with ValidationType::CreditCard.
CallCreditCardRule ==
    /\ vpc = "luhn"
    /\ "CreditCard" \notin DOMAIN lres
    /\ lres' = lres @@ ("CreditCard" :> ~validate_rule(Str(lstr), CreditCardRule))
    /\ UNCHANGED <<rvars, xvars, backoffice, db, db0, calls, down, faults, mvars, dvars, vfields, vdata,
                   vi, verrs, vpc, lstr>>

LuhnNext ==
    \/ CallValidateLuhn
    \/ CallLuhnRule
    \/ CallCreditCardRule

LuhnChars == {"0", "1", "5", "8", "9", "-"}

\* The strings of at most MaxLen characters.
LuhnStrings == UNION {[1..n -> LuhnChars] : n \in 0..MaxLen}

InitLuhn ==
    /\ QuietBackend
    /\ NoMutation
    /\ NoDelete
    /\ NoRetry
    /\ NoHarness
    /\ vfields = <<>>
    /\ vdata = EmptyRecord
    /\ vi = 1
    /\ verrs = <<>>
    /\ vpc = "luhn"
    /\ lstr \in LuhnStrings
    /\ lres = EmptyRecord

\* The Luhn check of one string, by the function and by the two rules.
SpecLuhn == InitLuhn /\ [][LuhnNext]_vars

\* The digits of a double added up: 2 * 7 = 14 gives 5.
DoubleFolded(d) == ((2 * d) \div 10) + ((2 * d) % 10)

RECURSIVE LuhnTotal(_, _)
\* The Luhn sum of the p rightmost digits: the rightmost digit is at place 1,
\* the digits at even places are doubled.
LuhnTotal(digits, p) ==
    IF p = 0 THEN 0
    ELSE LET d == digits[Len(digits) + 1 - p]
         IN (IF p % 2 = 0 THEN DoubleFolded(d) ELSE d) + LuhnTotal(digits, p - 1)

\* The Luhn criterion: at least two digits and a sum divisible by 10.
LuhnValid(s) ==
    LET digits == LuhnDigits(s)
    IN Len(digits) >= 2 /\ LuhnTotal(digits, Len(digits)) % 10 = 0

Visa == <<"4", "5", "3", "2", "0", "1", "5", "1", "1", "2", "8", "3", "0", "3", "6", "6">>
Counting == <<"1", "2", "3", "4", "5", "6", "7", "8", "9", "0", "1", "2", "3", "4", "5", "6">>

\* C15: validate_luhn accepts a string exactly when it has at least two
\* digits and its Luhn sum, from the rightmost digit with every second digit
\* doubled and reduced by 9 above 9, is divisible by 10; the characters that
\* are not digits do not change the result; the Luhn rule and the credit-card
\* rule accept the strings validate_luhn accepts and no other.
C15_LuhnCriterion ==
    /\ "fn" \in DOMAIN lres =>
          /\ lres["fn"] = LuhnValid(lstr)
          /\ lres["fn"] = validate_luhn(SelectSeq(lstr, IsDigit))
          /\ Len(LuhnDigits(lstr)) < 2 => ~lres["fn"]
    /\ {"Luhn", "CreditCard"} \subseteq DOMAIN lres =>
          lres["Luhn"] = lres["CreditCard"]
    /\ {"fn", "Luhn"} \subseteq DOMAIN lres => lres["Luhn"] = lres["fn"]
    /\ vpc = "luhn" => validate_luhn(Visa) /\ ~validate_luhn(Counting)

\* A string with a character that is no digit and a digit whose double
\* exceeds 9 was accepted by the function and by both rules.
C15_Witness ==
    /\ DOMAIN lres = {"fn", "Luhn", "CreditCard"}
    /\ lres["fn"] /\ lres["Luhn"] /\ lres["CreditCard"]
    /\ \E i \in DOMAIN lstr : ~IsDigit(lstr[i])
    /\ \E i \in DOMAIN lstr : lstr[i] = "5"
    /\ Len(LuhnDigits(lstr)) = 3

\* ------------------------------------------------------------------ relationship checks: properties

M2MEvents == {i \in DOMAIN mlog : mlog[i].by = "validate_many_to_many"}

\* validate_many_to_many has returned its errors to the handler.
ManyToManyReturned ==
    \/ mpc = "dispatch"
    \/ mpc = "done" /\ mresp.error = "Many-to-many relationship validation failed"
    \/ \E i \in DOMAIN mlog : mlog[i].ev = "execute_mutation"

\* The elements of the id array of a many-to-many relationship whose
\* referenced record is not stored in the target section.
DanglingElements(r) ==
    IF r.from_field \in DOMAIN mreq.data /\ mreq.data[r.from_field].t = "arr"
    THEN {j \in DOMAIN mreq.data[r.from_field].a :
             ~TargetRowExists(r, mreq.data[r.from_field].a[j])}
    ELSE {}

\* C16: validate_many_to_many checks every element of the id array on its
\* own. When every query was answered, the errors it returns for a
\* relationship number the elements whose referenced record is not stored in
\* the target section.
C16_OneErrorPerDanglingElement ==
    (/\ ManyToManyReturned
     /\ \A i \in M2MEvents : mlog[i].ok) =>
        \A k \in DOMAIN OutgoingM2M(backoffice, mreq.section_id) :
           LET r == OutgoingM2M(backoffice, mreq.section_id)[k]
           IN Cardinality(ErrorsFor(r.id)) = Cardinality(DanglingElements(r))

\* C17: validate_foreign_keys skips the one-to-many and many-to-many
\* relationships leaving the section. It issues no query for them, adds no
\* RelationshipError for them, and never ends in an error at one of them.
C17_SkippedKindsChangeNothing ==
    /\ \A i \in FkEvents :
          RelById(mlog[i].rel).relationship_type \in {OneToOne, ManyToOne}
    /\ InForeignKeyCheck =>
          \A k \in DOMAIN rel_errors :
             RelById(rel_errors[k].relationship_id).relationship_type
                \in {OneToOne, ManyToOne}
    /\ (mpc = "done" /\ mresp.error = "Relationship validation error") =>
          Outgoing(backoffice, mreq.section_id)[rel_i].relationship_type
             \in {OneToOne, ManyToOne}

\* ------------------------------------------------------------------ execute_with_retry

\* `max_retries: 3` of ApiDataSource::new and of GraphQLDataSource::new.
ApiMaxRetries == 3
GraphQLMaxRetries == 3

max_retries(kind) == IF kind = "rest" THEN ApiMaxRetries ELSE GraphQLMaxRetries

\* A backoff that grows by the same step each time.
delay_ms_linear(attempt) == attempt * 200

\* `2u64.pow(attempt) * 100`, the delay before attempt number `attempt`; with
\* attempt at most max_retries the product is far below 2^64.
delay_ms(attempt) == (2 ^ attempt) * 100

\* A loop that goes round once more.
InRangeOneMore(attempt, max) == attempt <= max + 1

\* `for attempt in 0..=self.max_retries`.
InRange(attempt, max) == attempt <= max

\* How a request can end: a response, a request that could not be sent or
\* whose response did not arrive, an error status, a body that is not JSON, a
\* timeout of the client.
Outcomes == {"ok", "transport error", "error status", "unparsable body", "timeout"}

\* The GraphQL adapter also fails on a response that lists errors.
OutcomesOf(kind) ==
    Outcomes \cup (IF kind = "graphql" THEN {"graphql errors"} ELSE {})

\* Whether the backend has applied the write of a request that ended with
\* `outcome`: a response with a success status comes from a backend that did,
\* after any other outcome it may or may not have.
Applied(outcome) ==
    IF outcome \in {"ok", "unparsable body"} THEN {TRUE} ELSE {FALSE, TRUE}

\* A loop that gives up a write at its first failure.
ReturnsFailedWrite(operation, outcome) ==
    outcome = "ok" \/ operation = "mutation"

\* `Ok(result) => return Ok(result)`: the loop is left on a success only,
\* for a query and for a mutation alike.
Returns(operation, outcome) == outcome = "ok"

\* tokio::time::sleep(delay_ms) at the top of every turn but the first.
RetryDelay ==
    /\ rpc = "loop"
    /\ InRange(rattempt, max_retries(rkind))
    /\ rattempt > 0
    /\ ~rslept
    /\ rdelays' = Append(rdelays, delay_ms(rattempt))
    /\ rclock' = rclock + delay_ms(rattempt)
    /\ rslept' = TRUE
    /\ UNCHANGED <<xvars, backoffice, db, db0, calls, down, faults, mvars, dvars, fvars, rkind,
                   rattempt, rcalls, rlast, rres, rpc, rop, rapplied>>

\* operation().await and the match on its result: Ok is returned, Err is
\* kept as last_error and the loop goes on.
RetryAttempt ==
    /\ rpc = "loop"
    /\ InRange(rattempt, max_retries(rkind))
    /\ rattempt = 0 \/ rslept
    /\ \E outcome \in OutcomesOf(rkind) :
          /\ rcalls' = Append(rcalls, [outcome |-> outcome, at |-> rclock,
                                       attempt |-> rattempt])
          /\ \E applied \in Applied(outcome) :
                rapplied' = IF rop = "mutation" /\ applied THEN rapplied + 1
                            ELSE rapplied
          /\ IF Returns(rop, outcome)
             THEN /\ rres' = IF outcome = "ok" THEN "Ok" ELSE "Err"
                  /\ rpc' = "done"
                  /\ rlast' = IF outcome = "ok" THEN rlast ELSE outcome
                  /\ UNCHANGED <<rattempt, rslept>>
             ELSE /\ rlast' = outcome
                  /\ rattempt' = rattempt + 1
                  /\ rslept' = FALSE
                  /\ UNCHANGED <<rres, rpc>>
    /\ UNCHANGED <<xvars, backoffice, db, db0, calls, down, faults, mvars, dvars, fvars, rkind,
                   rdelays, rclock, rop>>

\* The loop is over: Err(last_error) is returned.
RetryExhausted ==
    /\ rpc = "loop"
    /\ ~InRange(rattempt, max_retries(rkind))
    /\ rres' = "Err"
    /\ rpc' = "done"
    /\ UNCHANGED <<xvars, backoffice, db, db0, calls, down, faults, mvars, dvars, fvars, rkind,
                   rattempt, rslept, rcalls, rdelays, rclock, rlast, rop, rapplied>>

RetryNext ==
    \/ RetryDelay
    \/ RetryAttempt
    \/ RetryExhausted

InitRetry ==
    /\ QuietBackend
    /\ NoMutation
    /\ NoDelete
    /\ NoCalls
    /\ NoHarness
    /\ rop \in {"query", "mutation"}
    /\ rapplied = 0
    /\ rkind \in {"rest", "graphql"}
    /\ rattempt = 0
    /\ rslept = FALSE
    /\ rcalls = <<>>
    /\ rdelays = <<>>
    /\ rclock = 0
    /\ rlast = ""
    /\ rres = ""
    /\ rpc = "loop"

\* One adapter call of the REST or the GraphQL adapter.
SpecRetry == InitRetry /\ [][RetryNext]_vars

\* C18: an adapter call attempts its request at most 1 + 3 times. A success
\* ends the call at once with Ok, whatever failed before it; Err is returned
\* only after four attempts that all failed, timeouts included, and it is the
\* error of the last one.
C18_AtMostFourAttempts ==
    /\ Len(rcalls) <= 1 + 3
    /\ \A k \in DOMAIN rcalls :
          rcalls[k].outcome = "ok" =>
             k = Len(rcalls) /\ rpc = "done" /\ rres = "Ok"
    /\ rres = "Ok" => rcalls[Len(rcalls)].outcome = "ok"
    /\ rres = "Err" =>
          /\ Len(rcalls) = 1 + 3
          /\ \A k \in DOMAIN rcalls : rcalls[k].outcome # "ok"
          /\ rlast = rcalls[Len(rcalls)].outcome
    /\ (rpc = "loop" /\ Len(rcalls) < 1 + 3) => rres = ""

\* A call succeeded at its third attempt after an error status and a timeout.
C18_Witness ==
    /\ rres = "Ok"
    /\ Len(rcalls) = 3
    /\ rcalls[1].outcome = "error status"
    /\ rcalls[2].outcome = "timeout"

\* C19: the first attempt is made without delay, the delays before the
\* later attempts are 200 ms, 400 ms and 800 ms, each twice the one before,
\* for the REST and for the GraphQL adapter alike.
C19_BackoffDoubles ==
    /\ \A k \in DOMAIN rdelays : rdelays[k] = <<200, 400, 800>>[k]
    /\ \A k \in DOMAIN rdelays : k > 1 => rdelays[k] = 2 * rdelays[k - 1]
    /\ \A k \in DOMAIN rcalls :
          /\ k = 1 => rcalls[k].at = 0
          /\ k > 1 => rcalls[k].at - rcalls[k - 1].at = rdelays[k - 1]
    /\ Len(rdelays) <= 3
    /\ Len(rcalls) <= Len(rdelays) + 1

\* The GraphQL adapter made its fourth attempt 1400 ms after the first.
C19_Witness ==
    /\ rkind = "graphql"
    /\ Len(rcalls) = 4
    /\ rdelays = <<200, 400, 800>>
    /\ rcalls[1].at = 0
    /\ rcalls[4].at = 1400

\* ------------------------------------------------------------------ failures of the backend

\* C20: a delete request aborts at the first backend operation that fails,
\* be it an adapter construction, a query, a cascade operation or the delete
\* itself: the failed operation is the last one issued and the response is
\* not a success.
C20_AbortAtFirstFailure ==
    \A i \in DOMAIN dlog :
       ~dlog[i].ok =>
          /\ i = Len(dlog)
          /\ dresp.status # 200

\* ------------------------------------------------------------------ the adapter factory

\* The variants of DataSourceConfig that create_data_source matches on.
Variants ==
    {"Database", "Api", "GraphQL", "MongoDB", "Redis", "Elasticsearch", "Grpc",
     "Kafka", "S3", "Firebase", "Supabase", "WebSocket"}

\* The variants whose adapter is compiled in with a cargo feature and is a
\* stub without it.
FeatureGated == {"MongoDB", "Redis", "S3", "WebSocket"}

\* The backend a configuration names: it answers, it cannot be reached, or
\* the configuration does not name a backend at all (a malformed address).
Worlds == {"up", "unreachable", "misconfigured"}

\* Ok(Self { .. }); live tells whether the backend answered during the
\* construction.
Built(live) == [ok |-> TRUE, live |-> live]
\* Err(..): no adapter.
Failed == [ok |-> FALSE, live |-> FALSE]

\* AnyPoolOptions::connect opens a connection; its error is returned with `?`.
DatabaseDataSource_new(world) == IF world = "up" THEN {Built(TRUE)} ELSE {Failed}

\* ApiDataSource::new builds an HTTP client and returns Self: nothing is sent.
ApiDataSource_new(world) == {Built(FALSE)}

\* GraphQLDataSource::new, the same.
GraphQLDataSource_new(world) == {Built(FALSE)}

\* MongoDBDataSource::new: the stub returns Err; with the feature,
\* Client::with_uri_str fails on an address it cannot parse, and whether the
\* driver reaches the server before it returns is left open.
MongoDBDataSource_new(world, feature) ==
    IF ~feature \/ world = "misconfigured" THEN {Failed}
    ELSE IF world = "up" THEN {Built(TRUE), Built(FALSE)}
    ELSE {Built(FALSE), Failed}

\* RedisDataSource::new: the stub returns Err; with the feature the client is
\* opened, a connection is made and PING is sent, each error returned.
RedisDataSource_new(world, feature) ==
    IF feature /\ world = "up" THEN {Built(TRUE)} ELSE {Failed}

\* ElasticsearchDataSource::new builds an HTTP client and returns Self.
ElasticsearchDataSource_new(world) == {Built(FALSE)}

\* GrpcDataSource::new, KafkaDataSource::new, FirebaseDataSource::new and
\* SupabaseDataSource::new store their arguments and return Self.
GrpcDataSource_new(world) == {Built(FALSE)}
KafkaDataSource_new(world) == {Built(FALSE)}
FirebaseDataSource_new(world) == {Built(FALSE)}
SupabaseDataSource_new(world) == {Built(FALSE)}

\* S3DataSource::new: the stub returns Err; with the feature one object of
\* the bucket is listed and a failure is returned as Err.
S3DataSource_new(world, feature) ==
    IF feature /\ world = "up" THEN {Built(TRUE)} ELSE {Failed}

\* WebSocketDataSource::new: the stub returns Err; with the feature a test
\* connection is opened and a failure is returned as Err.
WebSocketDataSource_new(world, feature) ==
    IF feature /\ world = "up" THEN {Built(TRUE)} ELSE {Failed}

\* create_data_source: the results the match on the variant can give.
create_data_source(config, world, build) ==
    CASE config = "Database" -> DatabaseDataSource_new(world)
      [] config = "Api" -> ApiDataSource_new(world)
      [] config = "GraphQL" -> GraphQLDataSource_new(world)
      [] config = "MongoDB" -> MongoDBDataSource_new(world, "MongoDB" \in build)
      [] config = "Redis" -> RedisDataSource_new(world, "Redis" \in build)
      [] config = "Elasticsearch" -> ElasticsearchDataSource_new(world)
      [] config = "Grpc" -> GrpcDataSource_new(world)
      [] config = "Kafka" -> KafkaDataSource_new(world)
      [] config = "S3" -> S3DataSource_new(world, "S3" \in build)
      [] config = "Firebase" -> FirebaseDataSource_new(world)
      [] config = "Supabase" -> SupabaseDataSource_new(world)
      [] config = "WebSocket" -> WebSocketDataSource_new(world, "WebSocket" \in build)

\* create_data_source(config) is called and returns.
CreateDataSource ==
    /\ cpc = "call"
    /\ cres' \in create_data_source(cconfig, cworld, cbuild)
    /\ cpc' = "returned"
    /\ UNCHANGED <<backoffice, db, db0, calls, down, faults, mvars, dvars, fvars, rvars,
                   pvars, cconfig, cworld, cbuild>>

FactoryNext == CreateDataSource

InitFactory ==
    /\ QuietBackend
    /\ NoMutation
    /\ NoDelete
    /\ NoCalls
    /\ NoRetry
    /\ NoPaging
    /\ cconfig \in Variants
    /\ cworld \in Worlds
    /\ cbuild \in SUBSET FeatureGated
    /\ cres = Failed
    /\ cpc = "call"

\* One call of the factory, for every variant, backend state and build.
SpecFactory == InitFactory /\ [][FactoryNext]_vars

\* C21: whatever the variant, an adapter is handed out only after the
\* backend answered a liveness check during the construction, and a backend
\* that is unreachable or misconfigured gives an error and no adapter.
C21_NoAdapterWithoutLivenessCheck ==
    cpc = "returned" =>
       /\ cres.ok => cres.live
       /\ cworld # "up" => ~cres.ok

\* ------------------------------------------------------------------ pagination

\* A usize is written as its two's-complement reading: 2^64 - k, which only a
\* wrapped operation produces here, is the integer -k. With operands far below
\* 2^31 the wrapping subtraction and multiplication are the integer ones.

\* Option<usize>: None is <<>>, Some(n) is <<n>>.
unwrap_or(opt, d) == IF opt = <<>> THEN d ELSE opt[1]

\* `page - 1` panics in a build with overflow checks when page is 0.
SubtractPanics(page, checks) == checks /\ page - 1 < 0

\* An offset counted from page 0.
OffsetCountsPageZero(page, page_size) == page * page_size

\* `(page - 1) * page_size`.
Offset(page, page_size) == (page - 1) * page_size

\* PaginationParams::new.
PaginationParams_new(page, page_size, checks) ==
    IF SubtractPanics(page, checks)
    THEN [panic |-> TRUE, page |-> page, page_size |-> page_size, offset |-> 0]
    ELSE [panic |-> FALSE, page |-> page, page_size |-> page_size,
          offset |-> Offset(page, page_size)]

\* Iterator::skip(n): a count of 2^63 or more exceeds any Vec.
skip(seq, n) ==
    IF n < 0 \/ n >= Len(seq) THEN <<>> ELSE SubSeq(seq, n + 1, Len(seq))

\* Iterator::take(n).
take(seq, n) == IF n < 0 \/ n >= Len(seq) THEN seq ELSE SubSeq(seq, 1, n)

\* The rows of `<query> LIMIT page_size OFFSET offset` over the rows the
\* query finds.
LimitOffset(items, limit, offset) == take(skip(items, offset), limit)

\* DatabaseDataSource::execute_query_paginated with Some(pagination): the
\* statement is sent with LIMIT and OFFSET appended; what the backend makes
\* of an OFFSET of 2^63 or more is its own (an error or no row).
DatabasePage(items, p) ==
    IF p.offset < 0
    THEN {[ok |-> FALSE, rows |-> <<>>], [ok |-> TRUE, rows |-> <<>>]}
    ELSE {[ok |-> TRUE, rows |-> LimitOffset(items, p.page_size, p.offset)]}

\* PaginationParams::new(page, page_size) and the paginated query of the
\* database adapter with it.
CallPaginated ==
    /\ ppc = "call"
    /\ "adapter" \notin DOMAIN pres
    /\ ppage # <<>> /\ psize # <<>>
    /\ LET p == PaginationParams_new(ppage[1], psize[1], pchecks)
       IN IF p.panic
          THEN pres' = pres @@ ("adapter" :>
                          [panic |-> TRUE, ok |-> FALSE, rows |-> <<>>, offset |-> 0])
          ELSE \E r \in DatabasePage(pitems, p) :
                  pres' = pres @@ ("adapter" :>
                             [panic |-> FALSE, ok |-> r.ok, rows |-> r.rows,
                              offset |-> p.offset])
    /\ UNCHANGED <<backoffice, db, db0, calls, down, faults, mvars, dvars, fvars, rvars,
                   cvars, ppage, psize, pitems, pchecks, ppc>>

\* `page_size` of the ListActionConfig of the list action.
ConfigPageSize == 2

\* usize::div_ceil; a divisor of 0 panics in every build.
div_ceil(a, b) == IF a % b > 0 THEN (a \div b) + 1 ELSE a \div b

\* execute_action_handler for a list action with enable_pagination, once the
\* query has returned its rows: the page is cut out of them and the response
\* is built.
ListPage ==
    /\ ppc = "call"
    /\ "list" \notin DOMAIN pres
    /\ LET page == unwrap_or(ppage, 1)
           page_size == unwrap_or(psize, ConfigPageSize)
           start == (page - 1) * page_size
           Panicked == [panic |-> TRUE, data |-> <<>>, page |-> page,
                        page_size |-> page_size, start |-> 0, total_items |-> 0,
                        total_pages |-> 0]
       IN IF SubtractPanics(page, pchecks) \/ page_size = 0
          THEN pres' = pres @@ ("list" :> Panicked)
          ELSE pres' = pres @@ ("list" :>
                          [panic |-> FALSE,
                           data |-> take(skip(pitems, start), page_size),
                           page |-> page, page_size |-> page_size, start |-> start,
                           total_items |-> Len(pitems),
                           total_pages |-> div_ceil(Len(pitems), page_size)])
    /\ UNCHANGED <<backoffice, db, db0, calls, down, faults, mvars, dvars, fvars, rvars,
                   cvars, ppage, psize, pitems, pchecks, ppc>>

PagingNext ==
    \/ CallPaginated
    \/ ListPage

\* The first n records of a table, in the order the query returns them.
ItemsUpTo(n) == [i \in 1..n |-> [id |-> Num(i)]]

InitPaging ==
    /\ QuietBackend
    /\ NoMutation
    /\ NoDelete
    /\ NoCalls
    /\ NoRetry
    /\ NoFactory
    /\ ppage \in {<<>>} \cup {<<n>> : n \in 0..MaxPage}
    /\ psize \in {<<>>} \cup {<<n>> : n \in 0..MaxPageSize}
    /\ pitems \in {ItemsUpTo(n) : n \in 0..MaxItems}
    /\ pchecks \in BOOLEAN
    /\ pres = EmptyRecord
    /\ ppc = "call"

\* One paginated query of the database adapter and one page of the list
\* handler, over the same records.
SpecPaging == InitPaging /\ [][PagingNext]_vars

\* The rows the database adapter returns for page p of size s.
PageOf(items, p, s) ==
    LimitOffset(items, s, PaginationParams_new(p, s, FALSE).offset)

\* The records at the 0-based positions from up to (not including) to.
Positions(items, from, to) ==
    [i \in 1..((IF to < Len(items) THEN to ELSE Len(items)) - from) |-> items[from + i]]

\* C22: over an unchanging set of records the database adapter returns, for
\* page p >= 1 of size s, the records at positions (p-1)*s up to p*s of the
\* unpaginated result; page 2k of size s is the second half of page k of
\* size 2s, and page 2 of size 10 is page 1 of size 20 less its first 10.
C22_PageIsSlice ==
    /\ ("adapter" \in DOMAIN pres /\ ppage[1] >= 1) =>
          LET p == ppage[1]
              s == psize[1]
              r == pres["adapter"]
          IN /\ ~r.panic /\ r.ok
             /\ r.rows = Positions(pitems, (p - 1) * s, p * s)
             /\ p % 2 = 0 => r.rows = skip(PageOf(pitems, p \div 2, 2 * s), s)
    /\ ppc = "call" =>
          PageOf(ItemsUpTo(25), 2, 10) = skip(PageOf(ItemsUpTo(25), 1, 20), 10)

\* Page 2 of size 2 over six records was returned: the third and the fourth.
C22_Witness ==
    /\ "adapter" \in DOMAIN pres
    /\ ppage = <<2>> /\ psize = <<2>>
    /\ Len(pitems) = 6
    /\ pres["adapter"].rows = <<[id |-> Num(3)], [id |-> Num(4)]>>

\* C30: for every page and page size a client can send, 0 included, the list
\* handler and PaginationParams::new compute the start offset
\* (page - 1) * page_size and the page count ceil(total_items / page_size)
\* without underflow, overflow or division by zero, and the handler returns
\* the items at positions start up to start + page_size.
C30_PaginationIsTotal ==
    /\ "list" \in DOMAIN pres =>
          LET r == pres["list"]
          IN /\ ~r.panic
             /\ r.start >= 0
             /\ r.data = Positions(pitems, r.start, r.start + r.page_size)
             /\ r.total_pages * r.page_size >= r.total_items
             /\ (r.total_pages - 1) * r.page_size < r.total_items \/ r.total_items = 0
    /\ "adapter" \in DOMAIN pres =>
          /\ ~pres["adapter"].panic
          /\ pres["adapter"].offset >= 0

\* ------------------------------------------------------------------ the shape of the plan

RECURSIVE DepthFirstRelationships(_, _, _, _)
RECURSIVE DepthFirstRecords(_, _, _)

\* The plan for the dependent records `records` of relationship r, one after
\* the other: the record's own Delete, then the plan for its own dependents.
DepthFirstRecords(records, r, fuel) ==
    IF records = <<>> THEN <<>>
    ELSE LET own == SqlText(Head(records)["id"])
         IN <<CascadeOperation("Delete", r.from_section, own, r.id)>>
            \o DepthFirstRelationships(own, r.from_section, 1, fuel - 1)
            \o DepthFirstRecords(Tail(records), r, fuel)

\* The plan for record `id` of `section`, from the i-th cascade-enabled
\* relationship that targets the section on; fuel bounds the depth.
DepthFirstRelationships(id, section, i, fuel) ==
    LET rels == CascadeRelationships(backoffice, section)
    IN IF fuel = 0 \/ i > Len(rels) THEN <<>>
       ELSE LET r == rels[i]
                here ==
                   CASE r.relationship_type \in {OneToOne, OneToMany} ->
                           DepthFirstRecords(
                              SelectRows(db[r.from_section], r.from_field, id),
                              r, fuel)
                     [] r.relationship_type = ManyToMany ->
                           <<CascadeOperation("DeleteJunction", r.junction_table,
                                              id, r.id)>>
                     [] OTHER -> <<>>
            IN here \o DepthFirstRelationships(id, section, i + 1, fuel)

\* C23: the plan holds, for every cascade-enabled one-to-one or one-to-many
\* relationship that targets the section, one Delete per dependent record,
\* under that record's own id and section, each followed at once by the
\* operations planned for that record's own dependents, before the next
\* dependent record: the plan is the depth-first walk of the dependents.
C23_PlanIsDepthFirst ==
    dpc = "planned" =>
       ops = DepthFirstRelationships(dreq.id, dreq.section_id, 1, MaxOps + 1)

\* ------------------------------------------------------------------ two requests at once

\* The mutation requests that run beside a delete request: a new post of an
\* author, tagged with a stored tag.
ConcurrentMutations ==
    {[section_id |-> "posts", action_id |-> "form",
      data |-> [id |-> Str(<<"3">>), title |-> Str(<<"x", "y">>),
                author_id |-> Str(a), tags |-> Arr(<<Str(a)>>)]] :
        a \in {<<"1">>, <<"a">>}}

\* The delete requests that run beside a mutation request: a user.
ConcurrentDeletes ==
    {[section_id |-> "users", action_id |-> "form", id |-> id, has_id |-> TRUE] :
        id \in {<<"1">>, <<"a">>}}

InitConcurrent ==
    /\ backoffice \in
          {Backoffice(ty, TRUE, TRUE) : ty \in {OneToOne, OneToMany, ManyToOne}}
    /\ InitBackend
    /\ down = {}
    /\ mreq \in ConcurrentMutations
    /\ mpc = "start"
    /\ msources = {}
    /\ validation_errors = <<>>
    /\ rel_i = 1
    /\ el_j = 1
    /\ rel_errors = <<>>
    /\ mresp = NoResponse
    /\ mlog = <<>>
    /\ dreq \in ConcurrentDeletes
    /\ dpc = "start"
    /\ dsources = {}
    /\ stack = <<>>
    /\ ops = <<>>
    /\ op_i = 1
    /\ dresp = NoResponse
    /\ dlog = <<>>
    /\ plan1 = [ok |-> FALSE, ops |-> <<>>]
    /\ runs = 0
    /\ OthersIdle

\* A mutation request and a delete request served at the same time: the
\* handlers are independent tasks and their steps interleave in any order.
ConcurrentNext ==
    \/ MutationNext
    \/ DeleteNext

SpecConcurrent == InitConcurrent /\ [][ConcurrentNext]_vars

\* The existence query of the foreign-key check found the referenced row.
IsCheck(c) ==
    /\ c.request = "mutation"
    /\ c.by = "validate_foreign_keys"
    /\ c.ok /\ c.n >= 1

\* The delete request deleted the row that the check had found.
IsDeleteOf(c, check) ==
    /\ c.request = "delete"
    /\ c.by = "handler"
    /\ c.verb = "DELETE" /\ c.ok
    /\ c.table = check.table /\ c.field = check.field /\ c.lit = check.lit

\* The mutation of the mutation request.
IsDispatch(c) ==
    /\ c.request = "mutation"
    /\ c.by = "handler"
    /\ c.ev = "execute_mutation"

\* The submitted record is stored.
Stored == \E k \in DOMAIN db["posts"] : db["posts"][k] = mreq.data

\* No record of `table` has `field` equal to lit.
Gone(table, field, lit) == SelectRows(db[table], field, lit) = <<>>

\* The delete of the checked row came after the check and before any dispatch.
Between(i, j) ==
    /\ i < j
    /\ IsCheck(calls[i])
    /\ IsDeleteOf(calls[j], calls[i])
    /\ \A k \in 1..j : ~IsDispatch(calls[k])

\* C24: the foreign-key check and the dispatch of one mutation request are
\* separate steps and nothing orders them against a delete request: when the
\* delete of the referenced record runs between the two, the mutation is
\* dispatched all the same, and once it succeeds the stored record refers to
\* a record that is no longer there.
C24_DeleteBetweenCheckAndDispatch ==
    \A i, j \in DOMAIN calls :
       Between(i, j) =>
          /\ mpc = "done" =>
                \E k \in DOMAIN calls : k > j /\ IsDispatch(calls[k])
          /\ \A k \in DOMAIN calls :
                (k > j /\ IsDispatch(calls[k]) /\ calls[k].ok) =>
                   /\ mresp.status = 200
                   /\ Stored
                   /\ Gone(calls[i].table, calls[i].field, calls[i].lit)

\* Both requests were answered 200, the user was deleted between the check
\* and the dispatch, and the stored post names the deleted user.
C24_Witness ==
    /\ mresp.status = 200 /\ dresp.status = 200
    /\ \E i, j, k \in DOMAIN calls :
          /\ Between(i, j)
          /\ k > j /\ IsDispatch(calls[k]) /\ calls[k].ok
    /\ Stored
    /\ Gone("users", "id", mreq.data["author_id"].s)

\* A query of handle_cascade_delete.
IsPlanning(c) == c.request = "delete" /\ c.by = "handle_cascade_delete"

\* The delete of the requested record.
IsRecordDelete(c) ==
    /\ c.request = "delete"
    /\ c.by = "handler"
    /\ c.verb = "DELETE" /\ c.ok

\* The submitted record is a dependent of the record to delete: it refers to
\* it through a cascade-enabled one-to-one or one-to-many relationship.
IsDependent ==
    \E i \in DOMAIN backoffice.relationships :
       LET r == backoffice.relationships[i]
       IN /\ r.cascade_delete
          /\ r.relationship_type \in {OneToOne, OneToMany}
          /\ r.from_section = mreq.section_id
          /\ r.to_section = dreq.section_id
          /\ r.from_field \in DOMAIN mreq.data
          /\ mreq.data[r.from_field].t = "str"
          /\ mreq.data[r.from_field].s = dreq.id

\* The dependent record was stored by call k, after the last query of the
\* planning and before the requested record was deleted by call j.
InsertedAfterPlanning(k, j) ==
    /\ k < j
    /\ IsDependent
    /\ IsDispatch(calls[k]) /\ calls[k].ok
    /\ IsRecordDelete(calls[j])
    /\ \E i \in 1..k : IsPlanning(calls[i])
    /\ \A i \in DOMAIN calls : IsPlanning(calls[i]) => i < k

\* The plan has an operation for the submitted record.
Planned ==
    \E n \in DOMAIN ops :
       /\ ops[n].section = mreq.section_id
       /\ ops[n].record_id \in {SqlText(mreq.data["id"]), to_string(mreq.data["id"])}

\* C28: the cascade runs from the plan made at the start of the delete
\* request. A dependent record that a concurrent mutation stores after the
\* planning and before the requested record is deleted is in no operation of
\* the plan, is not deleted, and is left referring to the deleted record.
C28_LateDependentSurvives ==
    \A k, j \in DOMAIN calls :
       InsertedAfterPlanning(k, j) =>
          /\ ~Planned
          /\ Stored
          /\ Gone(dreq.section_id, "id", dreq.id)

\* A user with posts of its own was deleted with a plan that was executed,
\* and the post stored in between is left behind.
C28_Witness ==
    /\ dresp.status = 200 /\ mresp.status = 200
    /\ ops # <<>>
    /\ \E k, j \in DOMAIN calls : InsertedAfterPlanning(k, j)
    /\ Stored
    /\ Gone("users", "id", dreq.id)
    /\ SelectRows(db0["users"], "id", dreq.id) # <<>>

\* ------------------------------------------------------------------ the requested record

\* The entries of the delete request's log for the delete of the requested
\* record.
RecordEvents ==
    {i \in DOMAIN dlog : dlog[i].by = "handler" /\ dlog[i].ev = "execute_mutation"}

\* A query of the planning or a cascade operation failed, or the planning
\* returned an error.
CascadeFailed ==
    \/ \E k \in DOMAIN dlog :
          /\ dlog[k].by \in {"handle_cascade_delete", "execute_cascade_operations"}
          /\ ~dlog[k].ok
    \/ dresp.error \in {"Failed to process cascade delete",
                        "Failed to execute cascade operations"}

\* The requested record as the backend holds it.
RequestedRows(store) ==
    IF dreq.section_id \in DOMAIN store
    THEN SelectRows(store[dreq.section_id], "id", dreq.id)
    ELSE <<>>

\* C25: the delete of the requested record is the last statement of a delete
\* request, issued once the whole plan is computed and every cascade
\* operation has succeeded; when the planning or a cascade operation fails
\* the requested record is not deleted.
C25_RecordDeletedLast ==
    /\ \A i \in RecordEvents :
          /\ i = Len(dlog)
          /\ dpc = "done"
          /\ \A k \in 1..(i - 1) : dlog[k].ok
          /\ Len(ExecEvents) = Len(ops)
    /\ CascadeFailed =>
          /\ RecordEvents = {}
          /\ RequestedRows(db) = RequestedRows(db0)

\* C26: a delete request that is answered with an error because its action
\* id is unknown or because the action's data source is unknown has sent no
\* mutation to the backend, which is as the request found it.
C26_UnknownActionChangesNothing ==
    (dpc = "done" /\ dresp.error \in {"Action not found", "Data source not found"}) =>
       /\ \A i \in DOMAIN dlog : dlog[i].ev # "execute_mutation"
       /\ db = db0

\* ------------------------------------------------------------------ retried writes

\* C27: a mutation of the REST or the GraphQL adapter runs in the retry loop
\* of the reads, and every kind of failure is tried again: a request that
\* could not be completed, a timeout, an error status, a body that cannot be
\* parsed. Each attempt sends the whole write again, so the backend can apply
\* one execute_mutation call more than once, up to four times, and the call
\* can still return an error.
C27_WritesAreRetried ==
    /\ rres = "Err" =>
          /\ Len(rcalls) = 1 + 3
          /\ \A k \in DOMAIN rcalls : rcalls[k].outcome # "ok"
    /\ \A k \in DOMAIN rcalls :
          (k < Len(rcalls) \/ rpc = "loop") => rcalls[k].outcome # "ok"
    /\ (rpc = "loop" /\ rcalls # <<>> /\ Len(rcalls) < 1 + 3) =>
          /\ rres = ""
          /\ rattempt = Len(rcalls)
    /\ rapplied <= Len(rcalls)
    /\ rapplied <= 1 + 3
    /\ rop = "query" => rapplied = 0
    /\ rres = "Ok" => (rop = "mutation" => rapplied >= 1)

\* One REST mutation was applied four times by the backend, after a lost
\* response, a timeout, an error status and a body that was no JSON, and
\* the call returned an error.
C27_Witness ==
    /\ rkind = "rest" /\ rop = "mutation"
    /\ rres = "Err"
    /\ rapplied = 4
    /\ Len(rcalls) = 4
    /\ rcalls[1].outcome = "transport error"
    /\ rcalls[2].outcome = "timeout"
    /\ rcalls[3].outcome = "error status"
    /\ rcalls[4].outcome = "unparsable body"

\* ------------------------------------------------------------------ operations without a section

\* The section is declared and has an action.
Declared(section_id) ==
    \E k \in DOMAIN backoffice.sections :
        /\ backoffice.sections[k].id = section_id
        /\ backoffice.sections[k].actions # <<>>

\* C29: execute_cascade_operations finds the adapter of an operation through
\* the declared section named by the operation. An operation whose section is
\* not declared or has no action (a DeleteJunction on a junction table that is
\* no section of its own) fails before its mutation is issued: neither its
\* mutation nor that of a later operation nor the delete of the requested
\* record is ever sent, and once the operations before it have succeeded the
\* request answers 500 "Failed to execute cascade operations".
C29_UndeclaredSectionAbortsCascade ==
    \A i \in DOMAIN ops :
        ~Declared(ops[i].section) =>
            /\ Len(ExecEvents) < i
            /\ \A k \in DOMAIN ExecEvents :
                  ExecEvents[k].q = OperationQuery(backoffice, ops[k])
            /\ RecordEvents = {}
            /\ (/\ dpc = "done"
                /\ dresp.error # "Failed to process cascade delete"
                /\ Len(ExecEvents) = i - 1
                /\ \A k \in DOMAIN ExecEvents : ExecEvents[k].ok)
               => dresp = Response(500, "Failed to execute cascade operations")

\* The delete of a tag whose junction table is no section: the junction
\* operation comes first in the plan, the posts filed under the tag after it;
\* the request has ended with the error and the backend is as it was found.
C29_Witness ==
    /\ dpc = "done"
    /\ Len(ops) >= 2
    /\ ops[1].operation_type = "DeleteJunction"
    /\ ops[1].section = "post_tags"
    /\ ~Declared("post_tags")
    /\ ops[2].operation_type = "Delete"
    /\ dresp = Response(500, "Failed to execute cascade operations")
    /\ ExecEvents = <<>>
    /\ db = db0

====
